---- MODULE Spec2Model ----
(***************************************************************************)
(* State-machine model of crypto-oracle: the event pipeline                *)
(* (internal/pipeline over Redis streams) and the Memory-of-Trust graph    *)
(* (internal/memory over PostgreSQL and the Redis cache).                  *)
(***************************************************************************)
EXTENDS Integers, Sequences, FiniteSets, TLC

VARIABLES
    \* ---- event pipeline ----
    processors,     \* Pipeline.processors: the registered names (map keys)
    stopped,        \* Pipeline.stopped
    ctxDone,        \* the ctx handed to Start has been cancelled
    starts,         \* number of Pipeline.Start calls so far
    startSnapshots, \* history: processors registered when each Start ran
    consumers,      \* the startConsumer goroutines, in spawn order
    streams,        \* Redis: stream name -> sequence of entries
    groups,         \* Redis: <<stream, group>> -> consumer group state
    clock,          \* time.Now(), advanced by each PublishMessage
    engineTokens,   \* Engine.tokens: the addresses GetToken has cached
    engineCalls,    \* history: the UpdateTokenState and SaveReactivationMetrics calls
    publishedOK,    \* history: events for which PublishMessage returned nil
    processCalls,   \* history: every Processor.Process call
    acks,           \* history: every XAck command sent
    faults,         \* broker errors injected so far
    processErrors   \* Process errors returned so far

pipeVars == <<processors, stopped, ctxDone, starts, startSnapshots, consumers,
              streams, groups, clock, publishedOK, processCalls, acks, faults,
              processErrors,
              engineTokens, engineCalls>>

engineVars == <<engineTokens, engineCalls>>

VARIABLES
    \* ---- Memory of Trust ----
    gWallets,       \* TrustGraph.Wallets: address -> WalletNode
    gTokens,        \* TrustGraph.Tokens: address -> TokenNode
    dbInteractions, \* table wallet_interactions: id -> row
    dbScores,       \* table wallet_trust_scores: wallet_address -> trust_score
    dbSimilarities, \* table wallet_similarities: rows
    cache,          \* Redis keys of the cache client: key -> value
    pendingUpdates, \* the spawned "go updateWalletTrustScore(w)" not yet run
    recordedOK,     \* history: interactions RecordWalletInteraction accepted
    lastRecorded,   \* history: the interaction of the last graph operation
    historyResult,  \* what the GetWalletTokenHistory call that just returned gave
    scoreResult,    \* what the GetWalletTrustScore call that just returned gave
    recordResult,   \* what the RecordWalletInteraction call that just returned gave
    similarResult,  \* what the GetSimilarWallets call that just returned gave
    stopCh,         \* the channel Stop closes: "open" or "closed"
    stopResult,     \* what the Stop call that just returned gave
    started,        \* TrustNetwork.Start has run
    trustOps,       \* number of Memory-of-Trust steps so far
    dbFaults        \* database errors injected so far

trustVars == <<gWallets, gTokens, dbInteractions, dbScores, dbSimilarities, cache,
               pendingUpdates, recordedOK, lastRecorded, historyResult,
               scoreResult, recordResult, similarResult, stopCh, stopResult, started, trustOps,
               dbFaults>>

VARIABLES
    \* ---- token engine: price monitoring ----
    metrics,        \* Engine.metrics: address -> the snapshot of the last check
    ticks,          \* number of checkPriceMovements runs so far
    tickResult      \* history: what the checkPriceMovements run that just ended saw

monitorVars == <<metrics, ticks, tickResult>>

VARIABLES
    \* ---- token engine: anti-dump patterns and the X-Score ----
    scoreInput,     \* what the gateway and the caller give to one scoring call
    antiDumpResult, \* what the checkAntiDumpPattern call that just returned gave
    xScoreResult    \* what the CalculateXScore call that just returned gave

scoreVars == <<scoreInput, antiDumpResult, xScoreResult>>

VARIABLES
    \* ---- reactivation system ----
    running,        \* System.running
    scanPc,         \* where the scanRoutine goroutine is
    pending,        \* the candidates of the current scan not yet processed
    shutdownDone,   \* history: System.Shutdown has returned
    scans,          \* number of scans so far
    cycle           \* history: the last scan, what it saw and what was called since

reactVars == <<running, scanPc, pending, shutdownDone, scans, cycle>>

VARIABLES
    \* ---- application ----
    appPc,          \* "new", "started" or "stopped"
    stopLog         \* history: the components Stop has shut down or closed, in order

appVars == <<appPc, stopLog>>

VARIABLES
    \* ---- alert manager ----
    alerts,         \* Manager.alerts
    alertClock,     \* the clock CreateAlert reads
    alertResult     \* what the alert manager call that just returned gave

alertVars == <<alerts, alertClock, alertResult>>

VARIABLES
    \* ---- the two Redis clients ----
    groupCreateResult   \* what the XGroupCreate call that just returned gave

groupVars == <<groupCreateResult>>

VARIABLES
    \* ---- the token processor ----
    processResult   \* what the TokenProcessor.Process call that just returned gave

processVars == <<processResult>>

VARIABLES
    \* ---- the active wallets of a token ----
    activeResult   \* what the GetTokenActiveWallets call that just returned gave

activeVars == <<activeResult>>

VARIABLES
    \* ---- the goroutines that use the token engine ----
    goroutines,  \* goroutine -> where it is in GetToken or checkPriceMovements, and the map accesses it has begun
    engineOps    \* number of calls the goroutines have begun

raceVars == <<goroutines, engineOps>>

VARIABLES
    \* ---- the TrustGraph mutex and one wallet under concurrent calls ----
    mutex,        \* the goroutine that holds the write lock of TrustNetwork.mutex, or "free"
    nodeScore,    \* TrustScore of the wallet node, NoScore without a node
    cachedScore,  \* the value of the key wallet:trust:<addr>, NoScore without the key
    storedScore,  \* trust_score of the row of wallet_trust_scores, NoScore without a row
    hasRows,      \* the wallet has rows in wallet_interactions
    threads,      \* goroutine -> the call it runs, where it is, and the score it holds
    spawned,      \* the "go updateWalletTrustScore" goroutines not yet begun
    ioLog,        \* history: the database and cache calls, and whether the caller held the write lock
    lockOps       \* number of calls begun so far

lockVars == <<mutex, nodeScore, cachedScore, storedScore, hasRows, threads, spawned, ioLog, lockOps>>

VARIABLES
    \* ---- the LastUpdated stamps of one wallet node and one token node ----
    walletUpdated,   \* WalletNode.LastUpdated in nanoseconds, NoStamp without a node
    tokenUpdated,    \* TokenNode.LastUpdated in nanoseconds, NoStamp without a node
    rowUpdated,      \* last_updated of the row of wallet_trust_scores, NoStamp without a row
    wallClock,       \* the last reading of time.Now(), in nanoseconds
    interacted,      \* the wallet has a row in wallet_interactions
    updatesSpawned,  \* the "go updateWalletTrustScore" goroutines not yet run
    stampOps         \* number of calls so far

stampVars == <<walletUpdated, tokenUpdated, rowUpdated, wallClock, interacted, updatesSpawned, stampOps>>

VARIABLES
    \* ---- the calls of GetWalletTrustScore in progress ----
    callStack,   \* the calls of GetWalletTrustScore that have not returned, the outermost first
    callResult,  \* what the outermost GetWalletTrustScore call that just returned gave
    callOps      \* how many outermost calls were made

callVars == <<callStack, callResult, callOps>>

(* the variables of the calls checked on their own *)
extraVars == <<groupVars, processVars, activeVars, raceVars, lockVars, stampVars, callVars>>

(* the components beside each of them *)
besideExtra == <<monitorVars, scoreVars, reactVars, appVars, alertVars>>
besideGroup == <<besideExtra, processVars, activeVars, raceVars, lockVars, stampVars, callVars>>
besideProcess == <<besideExtra, groupVars, activeVars, raceVars, lockVars, stampVars, callVars>>
besideActive == <<besideExtra, groupVars, processVars, raceVars, lockVars, stampVars, callVars>>
besideRace == <<besideExtra, groupVars, processVars, activeVars, lockVars, stampVars, callVars>>
exceptRace == <<groupVars, processVars, activeVars, lockVars, stampVars, callVars>>
besideLock == <<besideExtra, groupVars, processVars, activeVars, raceVars, stampVars, callVars>>
besideStamp == <<besideExtra, groupVars, processVars, activeVars, raceVars, lockVars, callVars>>
besideCall == <<besideExtra, groupVars, processVars, activeVars, raceVars, lockVars, stampVars>>

(* the variables of the other components *)
moreVars == <<monitorVars, scoreVars, reactVars, appVars, alertVars, extraVars>>

(* the components beside the price monitoring, beside the scoring, beside the
   reactivation system *)
besideMonitor == <<scoreVars, reactVars, appVars, alertVars, extraVars>>
besideScore == <<monitorVars, reactVars, appVars, alertVars, extraVars>>
besideReact == <<monitorVars, scoreVars, appVars, alertVars, extraVars>>

vars == <<pipeVars, trustVars, moreVars>>

-----------------------------------------------------------------------------
(* Bounds of the model *)
MaxPublish == 2
MaxStarts == 1
MaxFaults == 1
MaxProcessErrors == 1

(* Program constants *)
ReadCount == 10

ProcessorNames == {"token_processor", "token_detection"}
PublishStreams == {"token_events", "token_processor"}
AllStreams == ProcessorNames \cup PublishStreams

-----------------------------------------------------------------------------
(* Go values carried by a Message and by a Redis stream record *)

ZeroTime == [sec |-> 0, nsec |-> 0]
CallerTime == [sec |-> 5, nsec |-> 250]
Now(c) == [sec |-> 10 + c, nsec |-> 1]

NilValue == [kind |-> "nil"]
Str(s) == [kind |-> "string", form |-> "plain", text |-> s, time |-> ZeroTime, doc |-> NilValue]
TimeStr(t) == [kind |-> "string", form |-> "rfc3339", text |-> "", time |-> t, doc |-> NilValue]
JSONStr(v) == [kind |-> "string", form |-> "json", text |-> "", time |-> ZeroTime, doc |-> v]
IntVal(n) == [kind |-> "int", num |-> n]
FloatVal(n) == [kind |-> "float64", num |-> n]
MapVal(f) == [kind |-> "map", fields |-> f]

(* encoding/json: Marshal then Unmarshal into interface{}: every number comes
   back as float64, maps come back as map[string]interface{} *)
RECURSIVE JSONRoundTrip(_)
JSONRoundTrip(v) ==
    CASE v.kind = "int" -> FloatVal(v.num)
      [] v.kind = "map" -> MapVal([k \in DOMAIN v.fields |-> JSONRoundTrip(v.fields[k])])
      [] OTHER -> v

(* go-redis writes a nil argument as the empty string; strings go as they are *)
RedisArg(v) == IF v.kind = "nil" THEN Str("") ELSE v

(* plain texts that begin with "{" or "[" without being JSON *)
BraceTexts == {"{oops"}

HasJSONPrefix(s) ==
    s.kind = "string" /\ (s.form = "json" \/ (s.form = "plain" /\ s.text \in BraceTexts))

BrokerID(n) == ToString(n) \o "-0"

GeneratedID(c) == "msg_" \o ToString(c)

-----------------------------------------------------------------------------
(* Messages handed to PublishMessage by the callers of the pipeline *)

StatePayload == MapVal([k \in {"token_address", "new_state"} |->
                    IF k = "token_address" THEN Str("T1") ELSE Str("HYPED")])
ScorePayload == MapVal([k \in {"token_address", "tx_count", "changes"} |->
                    CASE k = "token_address" -> Str("T1")
                      [] k = "tx_count" -> IntVal(3)
                      [] OTHER -> MapVal([c \in {"price_change"} |-> FloatVal(2)])])

EventInputs ==
    { [ID |-> "", Type |-> "state_change", Timestamp |-> ZeroTime, Payload |-> StatePayload],
      [ID |-> "ev1", Type |-> "reactivation", Timestamp |-> CallerTime, Payload |-> ScorePayload],
      [ID |-> "{oops", Type |-> "price_change", Timestamp |-> CallerTime, Payload |-> NilValue] }

(* PublishMessage, lines 306-315: the id and the timestamp a message is
   accepted with *)
Accepted(m, now) ==
    [m EXCEPT !.ID = IF m.ID = "" THEN GeneratedID(now.sec) ELSE m.ID,
              !.Timestamp = IF m.Timestamp = ZeroTime THEN now ELSE m.Timestamp]

(* PublishMessage, lines 317-339: json.Marshal of the whole Message, Unmarshal
   into a map, then every map or slice value marshalled again into a string *)
StreamValues(m) ==
    LET messageMap == [k \in {"id", "type", "timestamp", "payload"} |->
                          CASE k = "id" -> Str(m.ID)
                            [] k = "type" -> Str(m.Type)
                            [] k = "timestamp" -> TimeStr(m.Timestamp)
                            [] OTHER -> JSONRoundTrip(m.Payload)]
    IN  [k \in DOMAIN messageMap |->
            IF messageMap[k].kind = "map" THEN JSONStr(messageMap[k]) ELSE messageMap[k]]

(* startConsumer, lines 397-436: the Message built from one stream record *)
DecodeField(v) ==
    IF HasJSONPrefix(v)
    THEN IF v.form = "json" THEN v.doc ELSE v
    ELSE v

DecodeMessage(id, values, now) ==
    [ID |-> id,
     Type |-> IF "type" \in DOMAIN values THEN values["type"].text ELSE "",
     Timestamp |-> IF "timestamp" \in DOMAIN values /\ values["timestamp"].form = "rfc3339"
                   THEN values["timestamp"].time ELSE now,
     Payload |-> [k \in DOMAIN values \ {"type", "timestamp"} |-> DecodeField(values[k])]]

-----------------------------------------------------------------------------
(* Redis streams *)

NoGroup == [exists |-> FALSE, last |-> 0, pending |-> {}]

(* XADD stream * values: the record is appended with a broker-generated id *)
XAdd(strs, stream, values) ==
    [strs EXCEPT ![stream] = Append(@, [id |-> BrokerID(Len(@) + 1),
                                        values |-> [k \in DOMAIN values |-> RedisArg(values[k])]])]

(* Redis.XGroupCreate: the stream is created with an init record when it does
   not exist; XGROUP CREATE stream group $ starts the group after the last
   record; BUSYGROUP leaves an existing group as it is *)
StreamsAfterGroupCreate(strs, stream) ==
    IF Len(strs[stream]) = 0
    THEN XAdd(strs, stream, [k \in {"init"} |-> Str("true")])
    ELSE strs

GroupsAfterGroupCreate(grps, strs, stream, group) ==
    IF grps[<<stream, group>>].exists
    THEN grps
    ELSE [grps EXCEPT ![<<stream, group>>] =
             [exists |-> TRUE, last |-> Len(StreamsAfterGroupCreate(strs, stream)[stream]),
              pending |-> {}]]

(* Redis.XReadGroup with the id ">" : at most count records never delivered to
   the group, which become pending *)
Min(a, b) == IF a < b THEN a ELSE b

NewRecords(strs, grps, stream, group, count) ==
    LET g == grps[<<stream, group>>]
        hi == Min(Len(strs[stream]), g.last + count)
    IN  [i \in 1..(hi - g.last) |-> strs[stream][g.last + i]]

GroupsAfterRead(strs, grps, stream, group, count) ==
    LET g == grps[<<stream, group>>]
        batch == NewRecords(strs, grps, stream, group, count)
    IN  [grps EXCEPT ![<<stream, group>>] =
            [@ EXCEPT !.last = g.last + Len(batch),
                      !.pending = @ \cup {batch[i].id : i \in 1..Len(batch)}]]

(* XACK stream group id *)
GroupsAfterAck(grps, stream, group, id) ==
    [grps EXCEPT ![<<stream, group>>] = [@ EXCEPT !.pending = @ \ {id}]]

-----------------------------------------------------------------------------
(* The event pipeline *)

PipelineInit ==
    /\ processors = {}
    /\ stopped = TRUE
    /\ ctxDone = FALSE
    /\ starts = 0
    /\ startSnapshots = <<>>
    /\ consumers = <<>>
    /\ streams = [s \in AllStreams |-> <<>>]
    /\ groups = [k \in AllStreams \X ProcessorNames |-> NoGroup]
    /\ clock = 0
    /\ publishedOK = {}
    /\ processCalls = {}
    /\ acks = {}
    /\ faults = 0
    /\ processErrors = 0
    /\ engineTokens = {}
    /\ engineCalls = {}

(* a RegisterProcessor that starts a consumer for the new processor when the
   pipeline is running *)
RegisterProcessorAutoStart(p) ==
    /\ processors' = processors \cup {p}
    /\ consumers' = IF stopped \/ p \in processors THEN consumers
                    ELSE Append(consumers, [name |-> p, pc |-> "start", batch |-> <<>>,
                                            idle |-> FALSE])
    /\ UNCHANGED <<stopped, ctxDone, starts, startSnapshots, streams, groups,
                   clock, publishedOK, processCalls, acks, faults, processErrors>>
    /\ UNCHANGED engineVars
    /\ UNCHANGED <<trustVars, moreVars>>

(* Pipeline.RegisterProcessor: the processor is stored under its name *)
RegisterProcessor(p) ==
    /\ processors' = processors \cup {p}
    /\ UNCHANGED <<stopped, ctxDone, starts, startSnapshots, consumers, streams, groups,
                   clock, publishedOK, processCalls, acks, faults, processErrors>>
    /\ UNCHANGED engineVars
    /\ UNCHANGED <<trustVars, moreVars>>

(* the goroutines Start spawns: one startConsumer(ctx, name, processor) for
   each entry of the processors map *)
RECURSIVE Spawned(_)
Spawned(procs) ==
    IF procs = {} THEN <<>>
    ELSE LET p == CHOOSE x \in procs : TRUE
         IN  <<[name |-> p, pc |-> "start", batch |-> <<>>, idle |-> FALSE]>>
                 \o Spawned(procs \ {p})

(* Pipeline.Start *)
Start ==
    /\ starts < MaxStarts
    /\ stopped' = FALSE
    /\ starts' = starts + 1
    /\ startSnapshots' = Append(startSnapshots, processors)
    /\ consumers' = consumers \o Spawned(processors)
    /\ UNCHANGED <<processors, ctxDone, streams, groups, clock, publishedOK, processCalls,
                   acks, faults, processErrors>>
    /\ UNCHANGED engineVars
    /\ UNCHANGED <<trustVars, moreVars>>

(* Pipeline.Shutdown *)
Shutdown ==
    /\ stopped' = TRUE
    /\ UNCHANGED <<processors, ctxDone, starts, startSnapshots, consumers, streams, groups,
                   clock, publishedOK, processCalls, acks, faults, processErrors>>
    /\ UNCHANGED engineVars
    /\ UNCHANGED <<trustVars, moreVars>>

(* the owner of ctx cancels it *)
CancelCtx ==
    /\ ~ctxDone
    /\ ctxDone' = TRUE
    /\ UNCHANGED <<processors, stopped, starts, startSnapshots, consumers, streams, groups,
                   clock, publishedOK, processCalls, acks, faults, processErrors>>
    /\ UNCHANGED engineVars
    /\ UNCHANGED <<trustVars, moreVars>>

(* Pipeline.PublishMessage(streamName, message) returning nil *)
PublishMessage(stream, m) ==
    /\ clock < MaxPublish
    /\ clock' = clock + 1
    /\ LET msg == Accepted(m, Now(clock'))
       IN  /\ streams' = XAdd(streams, stream, StreamValues(msg))
           /\ publishedOK' = publishedOK \cup
                  {[stream |-> stream, id |-> BrokerID(Len(streams[stream]) + 1), msg |-> msg]}
    /\ UNCHANGED <<processors, stopped, ctxDone, starts, startSnapshots, consumers, groups,
                   processCalls, acks, faults, processErrors>>
    /\ UNCHANGED <<trustVars, moreVars>>

(* Pipeline.PublishMessage when XAdd fails: "failed to publish message" *)
PublishMessageFails(stream, m) ==
    /\ clock < MaxPublish
    /\ faults < MaxFaults
    /\ clock' = clock + 1
    /\ faults' = faults + 1
    /\ UNCHANGED <<processors, stopped, ctxDone, starts, startSnapshots, consumers, streams,
                   groups, publishedOK, processCalls, acks, processErrors>>
    /\ UNCHANGED <<trustVars, moreVars>>

-----------------------------------------------------------------------------
(* The token engine, a caller of the pipeline *)

EngineTokens == {"T1"}
LifecycleStates == {"HYPED", "SLEEP_MODE"}
TokenSymbol == Str("TKN")
BoolVal(b) == [kind |-> "bool", val |-> b]

(* the state the last UpdateTokenState call that returned nil gave the token;
   "unknown" before the first one *)
StateBefore(addr) ==
    LET calls == {c \in engineCalls : c.op = "UpdateTokenState" /\ c.addr = addr
                                        /\ c.result = "nil"}
    IN  IF calls = {} THEN "unknown"
        ELSE (CHOOSE c \in calls : \A d \in calls : d.n <= c.n).new

(* "oldState := "unknown"": no state is read or stored *)
OldState(addr) == "unknown"

(* the event UpdateTokenState builds *)
StateChangeEvent(addr, newState, now) ==
    [ID |-> "", Type |-> "state_change", Timestamp |-> now,
     Payload |-> MapVal([k \in {"token_address", "token_symbol", "old_state", "new_state"} |->
                    CASE k = "token_address" -> Str(addr)
                      [] k = "token_symbol" -> TokenSymbol
                      [] k = "old_state" -> Str(OldState(addr))
                      [] OTHER -> Str(newState)])]

(* the event SaveReactivationMetrics builds *)
ReactivationEvent(addr, now) ==
    [ID |-> "", Type |-> "reactivation", Timestamp |-> now,
     Payload |-> MapVal([k \in {"token_address", "token_symbol", "reactivation_score",
                                "changes", "detected_at", "smart_returns"} |->
                    CASE k = "token_address" -> Str(addr)
                      [] k = "token_symbol" -> TokenSymbol
                      [] k = "reactivation_score" -> FloatVal(70)
                      [] k = "changes" -> MapVal([c \in {"price_change"} |-> FloatVal(2)])
                      [] k = "detected_at" -> TimeStr(CallerTime)
                      [] OTHER -> BoolVal(FALSE)])]

(* an engine call that hands the publish error back to its caller *)
ResultAfterPublishStrict(sent) == IF sent THEN "nil" ELSE "error"

(* "if err := e.pipelineSvc.PublishMessage(...); err != nil { Warn }; return
   nil": the publish error is logged *)
ResultAfterPublish(sent) == "nil"

EngineCall(op, addr, new, resolved, sent, result) ==
    [n |-> Cardinality(engineCalls) + 1, op |-> op, addr |-> addr, new |-> new,
     before |-> StateBefore(addr), resolved |-> resolved, sent |-> sent,
     id |-> IF sent THEN BrokerID(Len(streams["token_events"]) + 1) ELSE "",
     result |-> result]

(* UpdateTokenState(addr, newState) with the token resolved, from Engine.tokens
   or by GetTokenInfo: the event is published on token_events, or the publish
   fails and is logged *)
UpdateTokenState(addr, newState) ==
    /\ engineTokens' = engineTokens \cup {addr}
    /\ \E sent \in BOOLEAN :
          /\ IF sent
             THEN PublishMessage("token_events", StateChangeEvent(addr, newState, Now(clock + 1)))
             ELSE PublishMessageFails("token_events",
                                      StateChangeEvent(addr, newState, Now(clock + 1)))
          /\ engineCalls' = engineCalls \cup
                 {EngineCall("UpdateTokenState", addr, newState, TRUE, sent,
                             ResultAfterPublish(sent))}

(* UpdateTokenState when GetTokenInfo fails for a token that is not cached:
   "failed to get token", nothing is published *)
UpdateTokenStateFails(addr, newState) ==
    /\ addr \notin engineTokens
    /\ clock < MaxPublish
    /\ faults < MaxFaults
    /\ clock' = clock + 1
    /\ faults' = faults + 1
    /\ engineCalls' = engineCalls \cup
           {EngineCall("UpdateTokenState", addr, newState, FALSE, FALSE, "error")}
    /\ UNCHANGED <<processors, stopped, ctxDone, starts, startSnapshots, consumers, streams,
                   groups, publishedOK, processCalls, acks, processErrors, engineTokens>>
    /\ UNCHANGED <<trustVars, moreVars>>

(* SaveReactivationMetrics(candidate): the event is published on token_events,
   or the publish fails and is logged *)
SaveReactivationMetrics(addr) ==
    /\ \E sent \in BOOLEAN :
          /\ IF sent
             THEN PublishMessage("token_events", ReactivationEvent(addr, Now(clock + 1)))
             ELSE PublishMessageFails("token_events", ReactivationEvent(addr, Now(clock + 1)))
          /\ engineCalls' = engineCalls \cup
                 {EngineCall("SaveReactivationMetrics", addr, "", TRUE, sent,
                             ResultAfterPublish(sent))}
    /\ UNCHANGED engineTokens

(* another caller of the pipeline publishes *)
CallerPublishes(stream, m) == PublishMessage(stream, m) /\ UNCHANGED engineVars
CallerPublishFails(stream, m) == PublishMessageFails(stream, m) /\ UNCHANGED engineVars

(* Start passes the map key as streamName; the group is processor.GetName(),
   which is the same name *)
StreamOf(c) == consumers[c].name
GroupOf(c) == consumers[c].name

(* startConsumer, lines 364-373: the consumer group named after the processor
   is created on the stream named after the processor *)
ConsumerCreateGroup(c) ==
    /\ consumers[c].pc = "start"
    /\ \/ /\ streams' = StreamsAfterGroupCreate(streams, StreamOf(c))
          /\ groups' = GroupsAfterGroupCreate(groups, streams, StreamOf(c), GroupOf(c))
          /\ consumers' = [consumers EXCEPT ![c].pc = "loop"]
          /\ UNCHANGED faults
       \/ /\ faults < MaxFaults
          /\ faults' = faults + 1
          /\ consumers' = [consumers EXCEPT ![c].pc = "exit"]
          /\ UNCHANGED <<streams, groups>>
    /\ UNCHANGED <<processors, stopped, ctxDone, starts, startSnapshots, clock, publishedOK,
                   processCalls, acks, processErrors>>
    /\ UNCHANGED engineVars
    /\ UNCHANGED <<trustVars, moreVars>>

(* startConsumer, lines 376-395: one turn of the loop up to the read *)
ConsumerRead(c) ==
    /\ consumers[c].pc = "loop"
    /\ \/ /\ stopped \/ ctxDone
          /\ consumers' = [consumers EXCEPT ![c].pc = "exit"]
          /\ UNCHANGED <<groups, faults>>
       \/ /\ ~stopped /\ ~ctxDone
          /\ LET batch == NewRecords(streams, groups, StreamOf(c), GroupOf(c), ReadCount)
             IN  /\ groups' = GroupsAfterRead(streams, groups, StreamOf(c), GroupOf(c), ReadCount)
                 /\ consumers' = [consumers EXCEPT ![c] =
                        [name |-> consumers[c].name,
                         pc |-> IF Len(batch) = 0 THEN "loop" ELSE "batch",
                         batch |-> batch, idle |-> Len(batch) = 0]]
          /\ UNCHANGED faults
       \/ /\ ~stopped /\ ~ctxDone
          /\ faults < MaxFaults
          /\ faults' = faults + 1
          /\ UNCHANGED <<consumers, groups>>
    /\ UNCHANGED <<processors, stopped, ctxDone, starts, startSnapshots, streams, clock,
                   publishedOK, processCalls, acks, processErrors>>
    /\ UNCHANGED engineVars
    /\ UNCHANGED <<trustVars, moreVars>>

CallsFor(p, id) == {r \in processCalls : r.proc = p /\ r.id = id}

AcksFor(stream, group, id) ==
    {a \in acks : a.stream = stream /\ a.group = group /\ a.id = id}

(* a consumer that acknowledges whatever Process returned *)
SendsAckAlways(ok) == TRUE

(* startConsumer, lines 438-461: whether XAck is sent after Process returned *)
SendsAck(ok) == ok

(* startConsumer, lines 397-461: the next record of the batch is decoded,
   handed to Process and acknowledged *)
ConsumerProcess(c) ==
    /\ consumers[c].pc = "batch"
    /\ LET rec == Head(consumers[c].batch)
           rest == Tail(consumers[c].batch)
           message == DecodeMessage(rec.id, rec.values, Now(clock))
       IN  /\ \E ok \in BOOLEAN, ackOK \in BOOLEAN :
                 /\ ~ok => processErrors < MaxProcessErrors
                 /\ processErrors' = IF ok THEN processErrors ELSE processErrors + 1
                 /\ processCalls' = processCalls \cup
                        {[proc |-> consumers[c].name, stream |-> StreamOf(c), id |-> rec.id,
                          n |-> Cardinality(CallsFor(consumers[c].name, rec.id)) + 1,
                          ok |-> ok, msg |-> message, stopped |-> stopped]}
                 /\ ~SendsAck(ok) => ackOK
                 /\ ~ackOK => faults < MaxFaults
                 /\ faults' = IF ackOK THEN faults ELSE faults + 1
                 /\ IF SendsAck(ok)
                    THEN /\ acks' = acks \cup
                                {[stream |-> StreamOf(c), group |-> GroupOf(c), id |-> rec.id,
                                  n |-> Cardinality(AcksFor(StreamOf(c), GroupOf(c), rec.id)) + 1]}
                         /\ groups' = IF ackOK THEN GroupsAfterAck(groups, StreamOf(c), GroupOf(c), rec.id)
                                      ELSE groups
                    ELSE UNCHANGED <<acks, groups>>
           /\ consumers' = [consumers EXCEPT ![c].batch = rest,
                                             ![c].pc = IF Len(rest) = 0 THEN "loop" ELSE "batch"]
    /\ UNCHANGED <<processors, stopped, ctxDone, starts, startSnapshots, streams, clock,
                   publishedOK>>
    /\ UNCHANGED engineVars
    /\ UNCHANGED <<trustVars, moreVars>>

PipelineNext ==
    \/ \E p \in ProcessorNames : RegisterProcessor(p)
    \/ Start
    \/ Shutdown
    \/ CancelCtx
    \/ \E s \in PublishStreams, m \in EventInputs : CallerPublishes(s, m)
    \/ \E s \in PublishStreams, m \in EventInputs : CallerPublishFails(s, m)
    \/ \E a \in EngineTokens, st \in LifecycleStates : UpdateTokenState(a, st)
    \/ \E a \in EngineTokens, st \in LifecycleStates : UpdateTokenStateFails(a, st)
    \/ \E a \in EngineTokens : SaveReactivationMetrics(a)
    \/ \E c \in DOMAIN consumers : ConsumerCreateGroup(c)
    \/ \E c \in DOMAIN consumers : ConsumerRead(c)
    \/ \E c \in DOMAIN consumers : ConsumerProcess(c)

(* the Memory of Trust as NewTrustNetwork leaves it, over empty stores *)
TrustIdle ==
    /\ gWallets = [x \in {} |-> x]
    /\ gTokens = [x \in {} |-> x]
    /\ dbInteractions = [x \in {} |-> x]
    /\ dbScores = [x \in {} |-> x]
    /\ dbSimilarities = {}
    /\ cache = [x \in {} |-> x]
    /\ pendingUpdates = [x \in {} |-> x]
    /\ recordedOK = {}
    /\ lastRecorded = [ID |-> "none"]
    /\ historyResult = [kind |-> "none"]
    /\ scoreResult = [kind |-> "none"]
    /\ recordResult = [kind |-> "none"]
    /\ similarResult = [kind |-> "none"]
    /\ stopCh = "open"
    /\ stopResult = [kind |-> "none"]
    /\ started = FALSE
    /\ trustOps = 0
    /\ dbFaults = 0

(* the program with only the pipeline exercised *)
(* the token engine as NewEngine leaves it *)
MonitorIdle ==
    /\ metrics = [x \in {} |-> x]
    /\ ticks = 0
    /\ tickResult = [kind |-> "none"]

(* the other components before they are used *)
ScoreIdle ==
    /\ scoreInput = [kind |-> "none"]
    /\ antiDumpResult = [kind |-> "none"]
    /\ xScoreResult = [kind |-> "none"]

ReactIdle ==
    /\ running = FALSE
    /\ scanPc = "idle"
    /\ pending = <<>>
    /\ shutdownDone = FALSE
    /\ scans = 0
    /\ cycle = [kind |-> "none"]

AppIdle ==
    /\ appPc = "new"
    /\ stopLog = <<>>

AlertIdle ==
    /\ alerts = <<>>
    /\ alertClock = 0
    /\ alertResult = [kind |-> "none", n |-> 0]

GroupIdle ==
    /\ groupCreateResult = [kind |-> "none", n |-> 0]

ProcessIdle ==
    /\ processResult = [kind |-> "none", n |-> 0]

ActiveIdle ==
    /\ activeResult = [kind |-> "none", n |-> 0]

RaceIdle ==
    /\ goroutines = [g \in {"monitor", "http", "processor"} |->
                       [pc |-> "idle", addr |-> "", todo |-> <<>>, access |-> {}]]
    /\ engineOps = 0

LockIdle ==
    /\ mutex = "free"
    /\ nodeScore = 0 - 1
    /\ cachedScore = 0 - 1
    /\ storedScore = 0 - 1
    /\ hasRows = FALSE
    /\ threads = [t \in {"g1", "g2"} |-> [op |-> "", pc |-> "idle", score |-> 0 - 1, inline |-> FALSE]]
    /\ spawned = 0
    /\ ioLog = {}
    /\ lockOps = 0

StampIdle ==
    /\ walletUpdated = 0 - 1
    /\ tokenUpdated = 0 - 1
    /\ rowUpdated = 0 - 1
    /\ wallClock = 0
    /\ interacted = FALSE
    /\ updatesSpawned = 0
    /\ stampOps = 0

CallIdle ==
    /\ callStack = <<>>
    /\ callResult = [kind |-> "none", n |-> 0]
    /\ callOps = 0

ExtraIdle == GroupIdle /\ ProcessIdle /\ ActiveIdle /\ RaceIdle /\ LockIdle /\ StampIdle /\ CallIdle

MoreIdle == MonitorIdle /\ ScoreIdle /\ ReactIdle /\ AppIdle /\ AlertIdle /\ ExtraIdle

PipelineStart == PipelineInit /\ TrustIdle /\ MoreIdle

PipelineSpec == PipelineStart /\ [][PipelineNext]_vars

-----------------------------------------------------------------------------
(* Properties of the event pipeline *)

(* a consumer that is back at its read, whose last read returned nothing and
   for which the broker holds nothing new *)
Drained(c) ==
    /\ consumers[c].pc = "loop"
    /\ consumers[c].idle
    /\ Len(NewRecords(streams, groups, StreamOf(c), GroupOf(c), ReadCount)) = 0

PipelineSettled ==
    /\ starts > 0 /\ ~stopped /\ ~ctxDone /\ faults = 0
    /\ \A c \in DOMAIN consumers : Drained(c)

StartedProcessors == UNION {startSnapshots[k] : k \in 1..starts}

Delivered(e, p) ==
    \E r \in processCalls : r.proc = p /\ r.stream = e.stream /\ r.id = e.id

(* C1: every event PublishMessage accepted is passed at least once to Process
   of every processor registered when Start ran, when the broker never failed:
   once every consumer has read all there is to read, nothing accepted is
   left undelivered *)
C1_AtLeastOnce ==
    PipelineSettled =>
        \A e \in publishedOK : \A p \in StartedProcessors : Delivered(e, p)

(* C2: an event whose Process call returned an error is passed to Process
   again by the same consumer on a later read cycle: once the consumer has
   gone through a later read, every failed call has a successor call, and an
   event with a failure followed by a success has two calls and one
   acknowledgement *)
C2_FailedIsRedelivered ==
    \A c \in DOMAIN consumers :
        (Drained(c) /\ ~stopped /\ ~ctxDone /\ faults = 0) =>
            \A r \in processCalls :
                (r.proc = consumers[c].name /\ ~r.ok) =>
                    \E r2 \in CallsFor(r.proc, r.id) : r2.n = r.n + 1

(* C4: an event published and then consumed reaches Process with the same
   type, the same timestamp to the second, and every key of the published
   payload present with the value it has after a JSON round trip *)
C4_RoundTrip ==
    \A r \in processCalls : \A e \in publishedOK :
        (r.stream = e.stream /\ r.id = e.id) =>
            /\ r.msg.Type = e.msg.Type
            /\ r.msg.Timestamp.sec = e.msg.Timestamp.sec
            /\ e.msg.Payload.kind = "map" =>
                   \A k \in DOMAIN e.msg.Payload.fields :
                       /\ k \in DOMAIN r.msg.Payload
                       /\ r.msg.Payload[k] = JSONRoundTrip(e.msg.Payload.fields[k])

OkCalls(p, id) == {r \in CallsFor(p, id) : r.ok}

(* C9: an acknowledgement for (stream, group, id) is sent only after a Process
   call for that message returned success: there are never more
   acknowledgements of a message than successful Process calls for it, so a
   message whose only calls failed has none *)
C9_AckOnlyAfterSuccess ==
    \A a \in acks :
        /\ a.stream = a.group
        /\ Cardinality(AcksFor(a.stream, a.group, a.id)) <= Cardinality(OkCalls(a.group, a.id))

(* one message was acknowledged and another one failed in Process *)
C9_Witness ==
    /\ \E a \in acks : OkCalls(a.group, a.id) # {}
    /\ \E r \in processCalls : ~r.ok /\ AcksFor(r.stream, r.proc, r.id) = {}

(* C11: once Shutdown has set the pipeline stopped, a consumer finishes at
   most the message it is on: no processor sees a second Process call made
   while the pipeline is stopped *)
C11_StopsAfterInFlight ==
    \A p \in ProcessorNames :
        Cardinality({r \in processCalls : r.proc = p /\ r.stopped}) <= 1

(* C12: the message handed to Process carries the id the event was accepted
   with: the caller's id, or the generated msg_ id *)
C12_DeliveredIdIsEventId ==
    \A r \in processCalls : \A e \in publishedOK :
        (r.stream = e.stream /\ r.id = e.id) => r.msg.ID = e.msg.ID

ConsumersOf(p) == {c \in DOMAIN consumers : consumers[c].name = p}

(* C10: Start spawns exactly one consumer for each processor registered at
   that moment, and a processor registered after Start returned has no
   consumer and no Process call *)
C10_RegisterThenStart ==
    /\ \A p \in ProcessorNames :
          Cardinality(ConsumersOf(p)) =
              Cardinality({k \in 1..starts : p \in startSnapshots[k]})
    /\ \A r \in processCalls : r.proc \in StartedProcessors

(* a processor registered after Start, with an event accepted on the stream of
   its name, while the processor registered before Start has been served *)
C10_Witness ==
    /\ starts > 0 /\ ~stopped
    /\ \E p \in processors \ StartedProcessors :
          \E e \in publishedOK : e.stream = p
    /\ \E q \in StartedProcessors : ConsumersOf(q) # {}
    /\ \A c \in DOMAIN consumers : Drained(c)

(* C19: the state_change event of an UpdateTokenState call that returned nil
   and published carries the state the token had before the call as
   old_state and the requested state as new_state *)
C19_EventCarriesOldState ==
    \A c \in engineCalls :
        (c.op = "UpdateTokenState" /\ c.result = "nil" /\ c.sent) =>
            \E e \in publishedOK :
                /\ e.stream = "token_events" /\ e.id = c.id
                /\ e.msg.Type = "state_change"
                /\ e.msg.Payload.fields["old_state"] = Str(c.before)
                /\ e.msg.Payload.fields["new_state"] = Str(c.new)

(* C20: UpdateTokenState with the token resolved and SaveReactivationMetrics
   return nil, also when the publish failed *)
C20_PublishFailureIsSwallowed ==
    \A c \in engineCalls : c.resolved => c.result = "nil"

(* an UpdateTokenState call has returned nil after its publish failed and
   left the stream empty *)
C20_Witness ==
    \E c \in engineCalls :
        /\ c.op = "UpdateTokenState" /\ c.resolved /\ ~c.sent /\ c.result = "nil"
        /\ streams["token_events"] = <<>>

-----------------------------------------------------------------------------
(* Memory of Trust: values *)

MaxTrustOps == 5
MaxDBFaults == 1

WalletAddrs == {"W1", "W2"}
TokenAddrs == {"T1"}
TxHashes == {"tx1", "tx2"}

(* a float64 score is kept in hundredths of a point *)
Points(n) == n * 100

DefaultTrustScore == Points(50)
MinTrustScore == Points(0)
MaxTrustScore == Points(100)
SignificantChange == Points(5)

(* LIMIT arguments of the queries *)
HistoryLimit == 100
RecentLimit == 10000
ScoreHistoryLimit == 1000
SimilarLimit == 10
SimilarityFloor == 5      \* "similarity > 0.05", in hundredths

(* minSimilarity 0.2 of evaluateNetworkPerformance, in hundredths *)
MinSimilarity == 20

EmptyMap == [x \in {} |-> x]
Has(f, k) == k \in DOMAIN f
Put(f, k, v) == [x \in DOMAIN f \cup {k} |-> IF x = k THEN v ELSE f[x]]
Drop(f, k) == [x \in DOMAIN f \ {k} |-> f[x]]

NoResult == [kind |-> "none"]
NoInteraction == [ID |-> "none"]

(* the block time of a transaction, in Unix seconds *)
TxTime(tx) == IF tx = "tx1" THEN 1 ELSE 2

Interaction(id, w, t, tx) ==
    [ID |-> id, WalletAddress |-> w, TokenAddress |-> t, TxHash |-> tx, Timestamp |-> TxTime(tx)]

(* the id the graph lists an interaction under: "%s:%s:%s" of tx hash, wallet
   and token *)
InteractionID(tx, w, t) == tx \o ":" \o w \o ":" \o t

(* the interactions handed to RecordWalletInteraction: each wallet trading the
   token in each transaction under the graph's id, one without an id, one
   without a wallet address and one without a token address *)
InteractionInputs ==
    {Interaction(InteractionID(tx, w, t), w, t, tx) :
        <<w, t, tx>> \in WalletAddrs \X TokenAddrs \X TxHashes}
    \cup {Interaction("", "W1", "T1", "tx1"), Interaction("", "", "T1", "tx1"),
          Interaction("", "W1", "", "tx1")}

(* Redis keys *)
TrustKey(w) == "wallet:trust:" \o w
HistoryKey(w, t) == "wallet:token:history:" \o w \o ":" \o t
SimilarKey(w) == "wallet:similar:" \o w \o ":0.200000:10"
PurgeKey(w) == "trust:wallet:" \o w

-----------------------------------------------------------------------------
(* PostgreSQL *)

(* SaveWalletInteraction: the id is generated when empty *)
RowID(i) ==
    IF i.ID = ""
    THEN i.WalletAddress \o ":" \o i.TokenAddress \o ":" \o ToString(i.Timestamp)
    ELSE i.ID

(* SaveWalletInteraction: INSERT ... ON CONFLICT (id) DO UPDATE of the mutable
   columns; wallet, token, tx hash and timestamp of an existing row stay *)
SaveWalletInteraction(rows, i) ==
    IF Has(rows, RowID(i)) THEN rows ELSE Put(rows, RowID(i), [i EXCEPT !.ID = RowID(i)])

(* ORDER BY timestamp DESC: every order of the rows the database may return *)
Orderings(S) ==
    {s \in [1..Cardinality(S) -> S] :
        \A a, b \in 1..Cardinality(S) :
            a < b => (s[a] # s[b] /\ s[a].Timestamp >= s[b].Timestamp)}

Limit(s, n) == SubSeq(s, 1, Min(Len(s), n))

(* GetRecentInteractions(limit) *)
GetRecentInteractions(rows, limit) ==
    {Limit(s, limit) : s \in Orderings({rows[id] : id \in DOMAIN rows})}

(* GetWalletTokenInteractions(wallet, token, limit) *)
GetWalletTokenInteractions(rows, w, t, limit) ==
    {Limit(s, limit) : s \in Orderings({rows[id] : id \in
        {x \in DOMAIN rows : rows[x].WalletAddress = w /\ rows[x].TokenAddress = t}})}

(* GetWalletInteractions(wallet, limit): only the number of rows is used *)
CountWalletInteractions(rows, w, limit) ==
    Min(Cardinality({id \in DOMAIN rows : rows[id].WalletAddress = w}), limit)

(* "trustScore, err := db.GetWalletTrustScore(w); if err != nil { trustScore =
   50.0 }": the stored score, or the default when there is no row *)
StoredOrDefault(scores, w) == IF Has(scores, w) THEN scores[w] ELSE DefaultTrustScore

(* GetWalletSimilarities(wallet, minSimilarity, limit): the rows of the wallet
   joined with the trust score of the similar wallet, best first *)
GetWalletSimilarities(sims, scores, w, minSimilarity, limit) ==
    LET mine == {r \in sims : r.wallet = w /\ r.score >= minSimilarity}
        order == CHOOSE s \in [1..Cardinality(mine) -> mine] :
                     \A a, b \in 1..Cardinality(mine) :
                         a < b => (s[a] # s[b] /\ s[a].score >= s[b].score)
    IN  Limit([k \in 1..Cardinality(mine) |->
                  [WalletAddress |-> order[k].similar, Score |-> order[k].score,
                   TrustScore |-> scores[order[k].similar]]], limit)

-----------------------------------------------------------------------------
(* The trust graph *)

NewWalletNode(score) == [trustScore |-> score, interactions |-> <<>>]
NewTokenNode == [wallets |-> <<>>, interactions |-> <<>>]

InList(list, x) == \E k \in 1..Len(list) : list[k] = x
Occurrences(list, x) == Cardinality({k \in 1..Len(list) : list[k] = x})

(* a token node that takes the wallet without looking for it in the list *)
AddWalletUnchecked(list, w) == Append(list, w)

(* the walletExists loop: the wallet is appended to tokenNode.Wallets when it
   is not in the list *)
AddWallet(list, w) == IF InList(list, w) THEN list ELSE Append(list, w)

(* the graph update RecordWalletInteraction and loadTrustGraph both make for
   one interaction: missing nodes are created, the interaction id is appended
   to the wallet node and to the token node, the wallet joins the token *)
Linked(g, w, t, tx, scores) ==
    LET ws == IF Has(g.wallets, w) THEN g.wallets
              ELSE Put(g.wallets, w, NewWalletNode(StoredOrDefault(scores, w)))
        ts == IF Has(g.tokens, t) THEN g.tokens ELSE Put(g.tokens, t, NewTokenNode)
        id == InteractionID(tx, w, t)
    IN  [wallets |-> [ws EXCEPT ![w].interactions = Append(@, id)],
         tokens |-> [ts EXCEPT ![t] = [wallets |-> AddWallet(@.wallets, w),
                                       interactions |-> Append(@.interactions, id)]]]

RECURSIVE LinkedAll(_, _, _)
LinkedAll(g, rows, scores) ==
    IF Len(rows) = 0 THEN g
    ELSE LinkedAll(Linked(g, Head(rows).WalletAddress, Head(rows).TokenAddress,
                          Head(rows).TxHash, scores),
                   Tail(rows), scores)

(* loadTrustGraph: every wallet with a stored score gets a fresh node, then
   the recent interactions are linked in; failAt names the query that failed *)
LoadedGraph(g, scores, recent, failAt) ==
    LET fresh == [w \in DOMAIN g.wallets \cup DOMAIN scores |->
                     IF Has(scores, w) THEN NewWalletNode(scores[w]) ELSE g.wallets[w]]
    IN  CASE failAt = "scores" -> g
          [] failAt = "recent" -> [wallets |-> fresh, tokens |-> g.tokens]
          [] OTHER -> LinkedAll([wallets |-> fresh, tokens |-> g.tokens], recent, scores)

(* a save that gives up at the first failed wallet *)
SavedScoresUntilFailure(scores, wallets, failed) ==
    IF failed # {} THEN scores
    ELSE [w \in DOMAIN scores \cup DOMAIN wallets |->
             IF w \in DOMAIN wallets THEN wallets[w].trustScore ELSE scores[w]]

(* saveTrustGraph: SaveWalletTrustScore for every wallet node; a failed save
   is logged and skipped *)
SavedScores(scores, wallets, failed) ==
    [w \in DOMAIN scores \cup (DOMAIN wallets \ failed) |->
        IF w \in DOMAIN wallets \ failed THEN wallets[w].trustScore ELSE scores[w]]

-----------------------------------------------------------------------------
(* Trust score of a wallet *)

Abs(x) == IF x < 0 THEN 0 - x ELSE x

evaluateProfitPerformance == Points(50)
evaluateVolumePerformance == Points(50)

evaluateTimingPerformance(n) ==
    Min(Points(50) + (CASE n > 500 -> Points(20)
                        [] n > 200 -> Points(15)
                        [] n > 100 -> Points(10)
                        [] n > 50 -> Points(5)
                        [] OTHER -> 0),
        Points(100))

(* GetSimilarWallets(w, 0.2, 10): the cached list, or the rows of the
   database, which are then cached for two hours *)
GetSimilarWallets(w) ==
    IF Has(cache, SimilarKey(w)) THEN cache[SimilarKey(w)]
    ELSE GetWalletSimilarities(dbSimilarities, dbScores, w, MinSimilarity, SimilarLimit)

CacheAfterGetSimilarWallets(w) ==
    IF Has(cache, SimilarKey(w)) THEN cache ELSE Put(cache, SimilarKey(w), GetSimilarWallets(w))

RECURSIVE TotalScore(_)
TotalScore(similar) ==
    IF Len(similar) = 0 THEN 0 ELSE Head(similar).TrustScore + TotalScore(Tail(similar))

(* mean trust score of the similar wallets, 50 without any *)
evaluateNetworkPerformance(w) ==
    LET similar == GetSimilarWallets(w)
    IN  IF Len(similar) = 0 THEN Points(50) ELSE TotalScore(similar) \div Len(similar)

Clamp(x) == IF x < MinTrustScore THEN MinTrustScore
            ELSE IF x > MaxTrustScore THEN MaxTrustScore ELSE x

(* calculateWalletTrustScore: 50 without history, else the weighted sum of
   the four factors bounded to [0, 100] *)
calculateWalletTrustScore(w) ==
    LET n == CountWalletInteractions(dbInteractions, w, ScoreHistoryLimit)
    IN  IF n = 0 THEN Points(50)
        ELSE Clamp((40 * evaluateProfitPerformance + 25 * evaluateTimingPerformance(n)
                    + 15 * evaluateVolumePerformance + 20 * evaluateNetworkPerformance(w))
                   \div 100)

(* the cache after calculateWalletTrustScore: the similar wallets are looked
   up only for a wallet with history *)
CacheAfterCalculate(w) ==
    IF CountWalletInteractions(dbInteractions, w, ScoreHistoryLimit) = 0 THEN cache
    ELSE CacheAfterGetSimilarWallets(w)

(* an update that writes every score it computes *)
ScoreIsWrittenAlways(w) ==
    ~Has(gWallets, w) \/ Abs(gWallets[w].trustScore - calculateWalletTrustScore(w)) >= 0

(* updateWalletTrustScore: whether the new score is written *)
ScoreIsWritten(w) ==
    ~Has(gWallets, w) \/ Abs(gWallets[w].trustScore - calculateWalletTrustScore(w)) > SignificantChange

(* an update that adds the new score to the stored one *)
WalletsAfterUpdateAdding(w) ==
    IF ~Has(gWallets, w) THEN Put(gWallets, w, NewWalletNode(calculateWalletTrustScore(w)))
    ELSE IF ScoreIsWritten(w)
         THEN [gWallets EXCEPT ![w].trustScore = @ + calculateWalletTrustScore(w)]
         ELSE gWallets

(* updateWalletTrustScore: the wallet nodes, the stored scores and the cache
   it leaves *)
WalletsAfterUpdate(w) ==
    IF ~Has(gWallets, w) THEN Put(gWallets, w, NewWalletNode(calculateWalletTrustScore(w)))
    ELSE IF ScoreIsWritten(w)
         THEN [gWallets EXCEPT ![w].trustScore = calculateWalletTrustScore(w)]
         ELSE gWallets

ScoresAfterUpdate(w) ==
    IF ScoreIsWritten(w) THEN Put(dbScores, w, calculateWalletTrustScore(w)) ELSE dbScores

CacheAfterUpdate(w) ==
    IF ScoreIsWritten(w)
    THEN Put(CacheAfterCalculate(w), TrustKey(w), calculateWalletTrustScore(w))
    ELSE CacheAfterCalculate(w)

-----------------------------------------------------------------------------
(* Similarities between wallets *)

(* GetWalletTokens(w, 1000): the tokens of the wallet's interaction rows *)
GetWalletTokens(rows, w) ==
    {rows[id].TokenAddress : id \in {k \in DOMAIN rows : rows[k].WalletAddress = w}}

(* Jaccard similarity of two wallets in hundredths *)
Jaccard(rows, a, b) ==
    LET A == GetWalletTokens(rows, a)
        B == GetWalletTokens(rows, b)
        union == Cardinality(A) + Cardinality(B) - Cardinality(A \cap B)
    IN  IF union > 0 THEN (Cardinality(A \cap B) * 100) \div union ELSE 0

(* every order in which "for addr := range m.trustGraph.Wallets" may list the
   wallets *)
WalletOrders(S) ==
    {s \in [1..Cardinality(S) -> S] : \A a, b \in 1..Cardinality(S) : a < b => s[a] # s[b]}

(* the map "similarities" after the outer loop has run for wallets[i..]:
   the entry of wallets[i] is made anew, then every later wallet more than 5%
   similar is entered under both wallets *)
RECURSIVE SimilaritiesFrom(_, _, _, _)
SimilaritiesFrom(rows, wallets, i, sims) ==
    IF i > Len(wallets) THEN sims
    ELSE LET fresh == {r \in sims : r.wallet # wallets[i]}
             found == {j \in (i + 1)..Len(wallets) :
                          Jaccard(rows, wallets[i], wallets[j]) > SimilarityFloor}
             pairs == UNION {{[wallet |-> wallets[i], similar |-> wallets[j],
                               score |-> Jaccard(rows, wallets[i], wallets[j])],
                              [wallet |-> wallets[j], similar |-> wallets[i],
                               score |-> Jaccard(rows, wallets[i], wallets[j])]} :
                             j \in found}
         IN  SimilaritiesFrom(rows, wallets, i + 1, fresh \cup pairs)

(* SaveWalletSimilarity for every entry but the failed ones: INSERT ... ON
   CONFLICT (wallet_address, similar_wallet_address) DO UPDATE *)
SavedSimilarities(table, entries, failed) ==
    LET written == entries \ failed
    IN  {r \in table : ~\E e \in written : e.wallet = r.wallet /\ e.similar = r.similar}
        \cup written

-----------------------------------------------------------------------------
(* Memory of Trust: operations *)

(* what earlier runs left in PostgreSQL: nothing, or a score row for W2 at
   either end of the range or at 25, with W2 stored as similar to W1 *)
PersistedStores ==
    {[scores |-> EmptyMap, sims |-> {}]}
    \cup {[scores |-> ("W2" :> sc),
             sims |-> {[wallet |-> "W1", similar |-> "W2", score |-> 50]}] :
             sc \in {Points(0), Points(25), Points(100)}}

TrustInit ==
    /\ gWallets = EmptyMap
    /\ gTokens = EmptyMap
    /\ dbInteractions = EmptyMap
    /\ \E st \in PersistedStores : dbScores = st.scores /\ dbSimilarities = st.sims
    /\ cache = EmptyMap
    /\ pendingUpdates = [w \in WalletAddrs |-> 0]
    /\ recordedOK = {}
    /\ lastRecorded = NoInteraction
    /\ historyResult = NoResult
    /\ scoreResult = NoResult
    /\ recordResult = NoResult
    /\ similarResult = NoResult
    /\ stopCh = "open"
    /\ stopResult = NoResult
    /\ started = FALSE
    /\ trustOps = 0
    /\ dbFaults = 0

(* one more step of the Memory of Trust *)
TrustStep ==
    /\ trustOps < MaxTrustOps
    /\ trustOps' = trustOps + 1

(* loadTrustGraph over the stored scores; spent counts the database errors the
   caller already met in this step *)
loadTrustGraph(scores, spent) ==
    /\ \E failAt \in {"none", "scores", "recent"} :
       \E recent \in GetRecentInteractions(dbInteractions, RecentLimit) :
          /\ failAt # "none" => dbFaults + spent < MaxDBFaults
          /\ dbFaults' = dbFaults + spent + (IF failAt = "none" THEN 0 ELSE 1)
          /\ LET g == LoadedGraph([wallets |-> gWallets, tokens |-> gTokens],
                                  scores, recent, failAt)
             IN  gWallets' = g.wallets /\ gTokens' = g.tokens
    /\ lastRecorded' = NoInteraction
    /\ historyResult' = NoResult

(* TrustNetwork.Start: the graph is loaded; an error is logged *)
TrustNetworkStart ==
    /\ ~started
    /\ TrustStep
    /\ similarResult' = NoResult
    /\ stopResult' = NoResult /\ UNCHANGED stopCh
    /\ recordResult' = NoResult
    /\ scoreResult' = NoResult
    /\ started' = TRUE
    /\ loadTrustGraph(dbScores, 0)
    /\ UNCHANGED <<dbInteractions, dbScores, dbSimilarities, cache, pendingUpdates, recordedOK>>
    /\ UNCHANGED <<pipeVars, moreVars>>

(* saveTrustGraph, run by the maintenance routine until stopCh is closed *)
saveTrustGraph ==
    /\ started
    /\ stopCh = "open"
    /\ TrustStep
    /\ similarResult' = NoResult
    /\ stopResult' = NoResult /\ UNCHANGED stopCh
    /\ recordResult' = NoResult
    /\ scoreResult' = NoResult
    /\ \E failed \in {{}} \cup {{w} : w \in DOMAIN gWallets} :
          /\ failed # {} => dbFaults < MaxDBFaults
          /\ dbFaults' = dbFaults + Cardinality(failed)
          /\ dbScores' = SavedScores(dbScores, gWallets, failed)
    /\ historyResult' = NoResult
    /\ UNCHANGED <<gWallets, gTokens, dbInteractions, dbSimilarities, cache, pendingUpdates,
                   recordedOK, lastRecorded, started>>
    /\ UNCHANGED <<pipeVars, moreVars>>

(* Stop: stopCh is closed, the maintenance routine is awaited, saveTrustGraph
   runs with its error logged, nil is returned.  A second call would close
   the closed channel; Stop is called once *)
Stop ==
    /\ stopCh = "open"
    /\ TrustStep
    /\ similarResult' = NoResult
    /\ stopCh' = "closed"
    /\ \E failed \in {{}} \cup {{w} : w \in DOMAIN gWallets} :
          /\ failed # {} => dbFaults < MaxDBFaults
          /\ dbFaults' = dbFaults + Cardinality(failed)
          /\ dbScores' = SavedScores(dbScores, gWallets, failed)
          /\ stopResult' = [kind |-> "ok", nodes |-> DOMAIN gWallets, failed |-> failed]
    /\ recordResult' = NoResult
    /\ scoreResult' = NoResult
    /\ historyResult' = NoResult
    /\ UNCHANGED <<gWallets, gTokens, dbInteractions, dbSimilarities, cache, pendingUpdates,
                   recordedOK, lastRecorded, started>>
    /\ UNCHANGED <<pipeVars, moreVars>>

(* UpdateWalletSimilarities: the similarities of the wallets of the graph are
   computed pair by pair and saved entry by entry; a failed save is logged.
   It runs in the maintenance pass after saveTrustGraph: the model lets it
   run when every node has its score row, which GetWalletSimilarities joins *)
UpdateWalletSimilarities ==
    /\ started
    /\ TrustStep
    /\ \A w \in DOMAIN gWallets : Has(dbScores, w)
    /\ \E wallets \in WalletOrders(DOMAIN gWallets) :
          LET entries == SimilaritiesFrom(dbInteractions, wallets, 1, {})
          IN  \E failed \in {{}} \cup {{e} : e \in entries} :
                 /\ failed # {} => dbFaults < MaxDBFaults
                 /\ dbFaults' = dbFaults + Cardinality(failed)
                 /\ dbSimilarities' = SavedSimilarities(dbSimilarities, entries, failed)
    /\ similarResult' = NoResult
    /\ stopResult' = NoResult /\ UNCHANGED stopCh
    /\ recordResult' = NoResult
    /\ scoreResult' = NoResult
    /\ historyResult' = NoResult
    /\ UNCHANGED <<gWallets, gTokens, dbInteractions, dbScores, cache, pendingUpdates,
                   recordedOK, lastRecorded, started>>
    /\ UNCHANGED <<pipeVars, moreVars>>

(* RebuildTrustGraph: saveTrustGraph, then loadTrustGraph *)
RebuildTrustGraph ==
    /\ started
    /\ TrustStep
    /\ similarResult' = NoResult
    /\ stopResult' = NoResult /\ UNCHANGED stopCh
    /\ recordResult' = NoResult
    /\ scoreResult' = NoResult
    /\ \E failed \in {{}} \cup {{w} : w \in DOMAIN gWallets} :
          /\ failed # {} => dbFaults < MaxDBFaults
          /\ dbScores' = SavedScores(dbScores, gWallets, failed)
          /\ loadTrustGraph(dbScores', Cardinality(failed))
    /\ UNCHANGED <<dbInteractions, dbSimilarities, cache, pendingUpdates, recordedOK, started>>
    /\ UNCHANGED <<pipeVars, moreVars>>

(* a validation that looks at the wallet address only *)
MissingAddressWalletOnly(i) == i.WalletAddress = ""

(* "if interaction.WalletAddress == "" || interaction.TokenAddress == """ *)
MissingAddress(i) == i.WalletAddress = "" \/ i.TokenAddress = ""

(* RecordWalletInteraction returning nil *)
RecordWalletInteraction(i) ==
    /\ started
    /\ TrustStep
    /\ similarResult' = NoResult
    /\ stopResult' = NoResult /\ UNCHANGED stopCh
    /\ recordResult' = [kind |-> "ok", input |-> i]
    /\ scoreResult' = NoResult
    /\ ~MissingAddress(i)
    /\ dbInteractions' = SaveWalletInteraction(dbInteractions, i)
    /\ LET g == Linked([wallets |-> gWallets, tokens |-> gTokens],
                       i.WalletAddress, i.TokenAddress, i.TxHash, dbScores)
       IN  gWallets' = g.wallets /\ gTokens' = g.tokens
    /\ pendingUpdates' = [pendingUpdates EXCEPT ![i.WalletAddress] = @ + 1]
    /\ recordedOK' = recordedOK \cup {[i EXCEPT !.ID = RowID(i)]}
    /\ lastRecorded' = [i EXCEPT !.ID = RowID(i)]
    /\ historyResult' = NoResult
    /\ UNCHANGED <<dbScores, dbSimilarities, cache, started, dbFaults>>
    /\ UNCHANGED <<pipeVars, moreVars>>

(* RecordWalletInteraction returning an error: an address is missing, or
   SaveWalletInteraction failed *)
RecordWalletInteractionFails(i) ==
    /\ started
    /\ TrustStep
    /\ similarResult' = NoResult
    /\ stopResult' = NoResult /\ UNCHANGED stopCh
    /\ recordResult' = [kind |-> "error", input |-> i]
    /\ scoreResult' = NoResult
    /\ IF MissingAddress(i)
       THEN UNCHANGED dbFaults
       ELSE dbFaults < MaxDBFaults /\ dbFaults' = dbFaults + 1
    /\ historyResult' = NoResult
    /\ UNCHANGED <<gWallets, gTokens, dbInteractions, dbScores, dbSimilarities, cache,
                   pendingUpdates, recordedOK, lastRecorded, started>>
    /\ UNCHANGED <<pipeVars, moreVars>>

(* the goroutine "go m.updateWalletTrustScore(wallet)" *)
updateWalletTrustScore(w) ==
    /\ pendingUpdates[w] > 0
    /\ TrustStep
    /\ similarResult' = NoResult
    /\ stopResult' = NoResult /\ UNCHANGED stopCh
    /\ recordResult' = NoResult
    /\ scoreResult' = NoResult
    /\ pendingUpdates' = [pendingUpdates EXCEPT ![w] = @ - 1]
    /\ gWallets' = WalletsAfterUpdate(w)
    /\ dbScores' = ScoresAfterUpdate(w)
    /\ cache' = CacheAfterUpdate(w)
    /\ historyResult' = NoResult
    /\ UNCHANGED <<gTokens, dbInteractions, dbSimilarities, recordedOK, lastRecorded,
                   started, dbFaults>>
    /\ UNCHANGED <<pipeVars, moreVars>>

(* a lookup that goes from the graph straight to the computation *)
ScoreSourceSkippingStore(w) ==
    IF Has(cache, TrustKey(w)) THEN "cache"
    ELSE IF Has(gWallets, w) THEN "graph"
    ELSE "computed"

(* GetWalletTrustScore: where the returned score comes from: the first of
   cache, graph and database that has one, else a computation *)
ScoreSource(w) ==
    IF Has(cache, TrustKey(w)) THEN "cache"
    ELSE IF Has(gWallets, w) THEN "graph"
    ELSE IF Has(dbScores, w) THEN "db"
    ELSE "computed"

(* GetWalletTrustScore: a score found in the graph or in the database is
   cached for an hour, one found in the database makes a node, and a wallet
   found nowhere goes through updateWalletTrustScore *)
GetWalletTrustScore(w) ==
    /\ started
    /\ TrustStep
    /\ similarResult' = NoResult
    /\ stopResult' = NoResult /\ UNCHANGED stopCh
    /\ recordResult' = NoResult
    /\ CASE ScoreSource(w) = "cache" ->
              /\ scoreResult' = [kind |-> "ok", wallet |-> w, from |-> "cache",
                                 score |-> cache[TrustKey(w)]]
              /\ UNCHANGED <<gWallets, dbScores, cache>>
         [] ScoreSource(w) = "graph" ->
              /\ scoreResult' = [kind |-> "ok", wallet |-> w, from |-> "graph",
                                 score |-> gWallets[w].trustScore]
              /\ cache' = Put(cache, TrustKey(w), gWallets[w].trustScore)
              /\ UNCHANGED <<gWallets, dbScores>>
         [] ScoreSource(w) = "db" ->
              /\ scoreResult' = [kind |-> "ok", wallet |-> w, from |-> "db",
                                 score |-> dbScores[w]]
              /\ gWallets' = Put(gWallets, w, NewWalletNode(dbScores[w]))
              /\ cache' = Put(cache, TrustKey(w), dbScores[w])
              /\ UNCHANGED dbScores
         [] OTHER ->
              /\ gWallets' = WalletsAfterUpdate(w)
              /\ dbScores' = ScoresAfterUpdate(w)
              /\ cache' = CacheAfterUpdate(w)
              /\ scoreResult' = [kind |-> "ok", wallet |-> w, from |-> "computed",
                                 score |-> gWallets'[w].trustScore]
    /\ historyResult' = NoResult
    /\ UNCHANGED <<gTokens, dbInteractions, dbSimilarities, pendingUpdates, recordedOK,
                   lastRecorded, started, dbFaults>>
    /\ UNCHANGED <<pipeVars, moreVars>>

(* the call GetSimilarWallets(w, 0.2, 10): the cached list; else the rows of
   the database, cached for two hours; with the database down both
   GetWalletSimilarities and the GetWalletTokens query of
   calculateWalletSimilarities fail, and the call returns an error *)
GetSimilarWalletsCall(w) ==
    /\ started
    /\ TrustStep
    /\ \E down \in BOOLEAN :
          /\ down => ~Has(cache, SimilarKey(w)) /\ dbFaults < MaxDBFaults
          /\ dbFaults' = IF down THEN dbFaults + 1 ELSE dbFaults
          /\ IF down
             THEN /\ similarResult' = [kind |-> "error", wallet |-> w, down |-> TRUE]
                  /\ UNCHANGED cache
             ELSE /\ similarResult' = [kind |-> "ok", wallet |-> w, down |-> FALSE,
                                       list |-> GetSimilarWallets(w)]
                  /\ cache' = CacheAfterGetSimilarWallets(w)
    /\ recordResult' = NoResult
    /\ scoreResult' = NoResult
    /\ historyResult' = NoResult
    /\ stopResult' = NoResult /\ UNCHANGED stopCh
    /\ UNCHANGED <<gWallets, gTokens, dbInteractions, dbScores, dbSimilarities,
                   pendingUpdates, recordedOK, lastRecorded, started>>
    /\ UNCHANGED <<pipeVars, moreVars>>

(* GetWalletTokenHistory: the cached list, or the rows of the database, which
   are then cached for thirty minutes *)
GetWalletTokenHistory(w, t) ==
    /\ started
    /\ TrustStep
    /\ similarResult' = NoResult
    /\ stopResult' = NoResult /\ UNCHANGED stopCh
    /\ recordResult' = NoResult
    /\ scoreResult' = NoResult
    /\ IF Has(cache, HistoryKey(w, t))
       THEN /\ historyResult' = [kind |-> "ok", wallet |-> w, token |-> t,
                                 interactions |-> cache[HistoryKey(w, t)]]
            /\ UNCHANGED <<cache, dbFaults>>
       ELSE \/ /\ dbFaults < MaxDBFaults
               /\ dbFaults' = dbFaults + 1
               /\ historyResult' = [kind |-> "error", wallet |-> w, token |-> t]
               /\ UNCHANGED cache
            \/ \E rows \in GetWalletTokenInteractions(dbInteractions, w, t, HistoryLimit) :
                  /\ historyResult' = [kind |-> "ok", wallet |-> w, token |-> t,
                                       interactions |-> rows]
                  /\ cache' = Put(cache, HistoryKey(w, t), rows)
                  /\ UNCHANGED dbFaults
    /\ UNCHANGED <<gWallets, gTokens, dbInteractions, dbScores, dbSimilarities, pendingUpdates,
                   recordedOK, lastRecorded, started>>
    /\ UNCHANGED <<pipeVars, moreVars>>

WithoutWallet(list, w) == SelectSeq(list, LAMBDA a : a # w)

(* PurgeWallet: the wallet node is deleted, the wallet is filtered out of
   every token's wallets, the key "trust:wallet:<w>" is deleted *)
PurgeWallet(w) ==
    /\ started
    /\ TrustStep
    /\ similarResult' = NoResult
    /\ stopResult' = NoResult /\ UNCHANGED stopCh
    /\ recordResult' = NoResult
    /\ scoreResult' = NoResult
    /\ gWallets' = Drop(gWallets, w)
    /\ gTokens' = [t \in DOMAIN gTokens |->
                      [gTokens[t] EXCEPT !.wallets = WithoutWallet(@, w)]]
    /\ cache' = Drop(cache, PurgeKey(w))
    /\ lastRecorded' = NoInteraction
    /\ historyResult' = NoResult
    /\ UNCHANGED <<dbInteractions, dbScores, dbSimilarities, pendingUpdates, recordedOK,
                   started, dbFaults>>
    /\ UNCHANGED <<pipeVars, moreVars>>

(* a Redis key reaches its time to live *)
CacheExpire(k) ==
    /\ Has(cache, k)
    /\ TrustStep
    /\ similarResult' = NoResult
    /\ stopResult' = NoResult /\ UNCHANGED stopCh
    /\ recordResult' = NoResult
    /\ scoreResult' = NoResult
    /\ cache' = Drop(cache, k)
    /\ historyResult' = NoResult
    /\ UNCHANGED <<gWallets, gTokens, dbInteractions, dbScores, dbSimilarities, pendingUpdates,
                   recordedOK, lastRecorded, started, dbFaults>>
    /\ UNCHANGED <<pipeVars, moreVars>>

TrustNext ==
    \/ TrustNetworkStart
    \/ Stop
    \/ saveTrustGraph
    \/ UpdateWalletSimilarities
    \/ RebuildTrustGraph
    \/ \E i \in InteractionInputs : RecordWalletInteraction(i)
    \/ \E i \in InteractionInputs : RecordWalletInteractionFails(i)
    \/ \E w \in WalletAddrs : updateWalletTrustScore(w)
    \/ \E w \in WalletAddrs : GetWalletTrustScore(w)
    \/ \E w \in WalletAddrs : GetSimilarWalletsCall(w)
    \/ \E w \in WalletAddrs, t \in TokenAddrs : GetWalletTokenHistory(w, t)
    \/ \E w \in WalletAddrs : PurgeWallet(w)
    \/ \E k \in DOMAIN cache : CacheExpire(k)

(* the program with only the Memory of Trust exercised *)
TrustStart == PipelineInit /\ TrustInit /\ MoreIdle

TrustSpec == TrustStart /\ [][TrustNext]_vars

-----------------------------------------------------------------------------
(* Properties of the Memory of Trust *)

ListsInteraction(node, id) == InList(node.interactions, id)

(* C3: RecordWalletInteraction called a second time with the interaction it
   has just recorded leaves the wallet nodes and the token nodes as they were
   after the first call *)
C3_RecordTwiceIsRecordOnce ==
    [][\A i \in InteractionInputs :
          (lastRecorded = [i EXCEPT !.ID = RowID(i)] /\ RecordWalletInteraction(i))
              => UNCHANGED <<gWallets, gTokens>>]_vars

(* C5: the trust score of every wallet node lies in [0, 100] *)
C5_TrustScoreInRange ==
    \A w \in DOMAIN gWallets :
        gWallets[w].trustScore >= Points(0) /\ gWallets[w].trustScore <= Points(100)

(* a wallet node holds a score that calculateWalletTrustScore computed from a
   similar wallet, next to a node loaded with a stored score at an end of the
   range *)
C5_Witness ==
    /\ \E w \in DOMAIN gWallets :
          gWallets[w].trustScore \notin {Points(0), Points(50), Points(100)}
    /\ \E w \in DOMAIN gWallets : gWallets[w].trustScore \in {Points(0), Points(100)}

(* C6: an interaction id between wallet w and token t is listed on the wallet
   node of w exactly when it is listed on the token node of t *)
C6_ListedOnBothNodes ==
    \A w \in WalletAddrs, t \in TokenAddrs, tx \in TxHashes :
        (Has(gWallets, w) /\ ListsInteraction(gWallets[w], InteractionID(tx, w, t)))
            <=> (Has(gTokens, t) /\ ListsInteraction(gTokens[t], InteractionID(tx, w, t)))

(* C7: a GetWalletTokenHistory(w, t) that returns a list returns an entry for
   every interaction of w with t that RecordWalletInteraction accepted before
   the call *)
C7_HistoryHasRecorded ==
    historyResult.kind = "ok" =>
        \A r \in recordedOK :
            (r.WalletAddress = historyResult.wallet /\ r.TokenAddress = historyResult.token)
                => \E k \in 1..Len(historyResult.interactions) :
                       historyResult.interactions[k].ID = r.ID

(* C8: no token node lists a wallet twice, and the token node of the
   interaction RecordWalletInteraction has just recorded lists its wallet
   exactly once *)
C8_TokenWalletsDistinct ==
    /\ \A t \in DOMAIN gTokens : \A w \in WalletAddrs :
          Occurrences(gTokens[t].wallets, w) <= 1
    /\ lastRecorded.ID # "none" =>
          /\ Has(gTokens, lastRecorded.TokenAddress)
          /\ Occurrences(gTokens[lastRecorded.TokenAddress].wallets,
                         lastRecorded.WalletAddress) = 1

(* the wallet of the interaction just recorded was on the token node already,
   and the token node lists a second wallet *)
C8_Witness ==
    /\ lastRecorded.ID # "none"
    /\ Len(gWallets[lastRecorded.WalletAddress].interactions) >= 2
    /\ Len(gTokens[lastRecorded.TokenAddress].wallets) >= 2

(* the answer of the GetWalletTrustScore call of this step, if it is one *)
Answers(w) == scoreResult'.kind = "ok" /\ scoreResult'.wallet = w

(* the wallet has no interaction row and no score row *)
Unknown(w) == CountWalletInteractions(dbInteractions, w, ScoreHistoryLimit) = 0 /\ ~Has(dbScores, w)

(* C13 as stated: GetWalletTrustScore(w) returns the cached score, else the
   node's score, else the persisted score, else 50 *)
C13_ReadOrderThenDefault ==
    [][\A w \in WalletAddrs :
         Answers(w) =>
             scoreResult'.score =
                 IF Has(cache, TrustKey(w)) THEN cache[TrustKey(w)]
                 ELSE IF Has(gWallets, w) THEN gWallets[w].trustScore
                 ELSE IF Has(dbScores, w) THEN dbScores[w]
                 ELSE DefaultTrustScore]_vars

(* C13 amended: GetWalletTrustScore(w) returns the cached score, else the
   node's score, else the persisted score, else the score its own
   recomputation leaves on the new node; a wallet with no interaction and no
   persisted score gets 50 *)
C13_ReadOrderThenComputed ==
    [][\A w \in WalletAddrs :
         Answers(w) =>
             /\ scoreResult'.score =
                    IF Has(cache, TrustKey(w)) THEN cache[TrustKey(w)]
                    ELSE IF Has(gWallets, w) THEN gWallets[w].trustScore
                    ELSE IF Has(dbScores, w) THEN dbScores[w]
                    ELSE gWallets'[w].trustScore
             /\ Unknown(w) => scoreResult'.score = DefaultTrustScore]_vars

(* a call answered a computed score that is not the default *)
C13_Witness ==
    /\ scoreResult.kind = "ok"
    /\ scoreResult.from = "computed"
    /\ scoreResult.score # DefaultTrustScore

(* this step is the recomputation of a wallet that has a node *)
Recomputes(w) == pendingUpdates'[w] < pendingUpdates[w] /\ Has(gWallets, w)

(* the entry of k is the same before and after the step *)
Kept(f, g, k) == Has(f, k) = Has(g, k) /\ (Has(f, k) => f[k] = g[k])

(* C14: recomputing the score of a wallet of the graph rewrites the node, the
   persisted score and the cached score when the new score is more than 5
   points from the old one, and leaves all three as they were otherwise *)
C14_WrittenIffSignificant ==
    [][\A w \in WalletAddrs :
         Recomputes(w) =>
             LET old == gWallets[w].trustScore
                 new == calculateWalletTrustScore(w)
             IN  IF Abs(new - old) > Points(5)
                 THEN /\ gWallets'[w].trustScore = new
                      /\ Has(dbScores', w) /\ dbScores'[w] = new
                      /\ Has(cache', TrustKey(w)) /\ cache'[TrustKey(w)] = new
                 ELSE /\ gWallets'[w] = gWallets[w]
                      /\ Kept(dbScores, dbScores', w)
                      /\ Kept(cache, cache', TrustKey(w))]_vars

(* every recomputation of a recorded wallet has run, the new score is 45 and
   the node keeps its 50 with no score row written *)
C14_Witness ==
    /\ \E w \in WalletAddrs :
           /\ Has(gWallets, w) /\ gWallets[w].trustScore = Points(50)
           /\ pendingUpdates[w] = 0 /\ w \in {i.WalletAddress : i \in recordedOK}
           /\ calculateWalletTrustScore(w) = Points(45)
           /\ ~Has(dbScores, w)

(* C15: RecordWalletInteraction with an empty wallet or token address returns
   an error, writes no row, leaves the graph as it was and schedules no
   recomputation *)
C15_MissingAddressRejected ==
    [][\A i \in InteractionInputs :
         (recordResult'.kind # "none" /\ recordResult'.input = i
              /\ (i.WalletAddress = "" \/ i.TokenAddress = "")) =>
             /\ recordResult'.kind = "error"
             /\ UNCHANGED <<dbInteractions, dbScores, dbSimilarities>>
             /\ UNCHANGED <<gWallets, gTokens>>
             /\ UNCHANGED pendingUpdates]_vars

(* a call without a token address returned its error when the graph had nodes *)
C15_Witness ==
    /\ recordResult.kind = "error"
    /\ recordResult.input.TokenAddress = ""
    /\ recordResult.input.WalletAddress # ""
    /\ DOMAIN gWallets # {}

(* C16: Stop returns nil after a SaveWalletTrustScore call for every wallet
   node: the score of every node whose save did not fail is persisted, also
   when the save of another node failed *)
C16_StopSavesEveryNode ==
    [][stopCh' # stopCh =>
         /\ stopResult'.kind = "ok"
         /\ stopResult'.nodes = DOMAIN gWallets
         /\ \A w \in DOMAIN gWallets \ stopResult'.failed :
                Has(dbScores', w) /\ dbScores'[w] = gWallets[w].trustScore]_vars

(* Stop returned after the save of one node failed and the save of another
   node wrote its score *)
C16_Witness ==
    /\ stopResult.kind = "ok"
    /\ stopResult.failed # {}
    /\ \E w \in stopResult.nodes \ stopResult.failed :
           Has(dbScores, w) /\ dbScores[w] = gWallets[w].trustScore

(* C17: a GetSimilarWallets call whose persistence reads fail returns an
   empty list and no error *)
C17_FailedReadsFallBack ==
    (similarResult.kind # "none" /\ similarResult.down) =>
        (similarResult.kind = "ok" /\ similarResult.list = <<>>)

(* C18: every similarity a step persists for (a, b) is persisted with the
   same value for (b, a) *)
C18_SimilaritySymmetric ==
    [][\A r \in dbSimilarities' \ dbSimilarities :
         [wallet |-> r.similar, similar |-> r.wallet, score |-> r.score]
             \in dbSimilarities']_vars

-----------------------------------------------------------------------------
(* Token engine: MonitorPriceMovements *)

MaxTicks == 3

MonitoredTokens == {"T1", "T2"}

(* models.TokenMetrics, with the fields that are compared *)
TokenMetrics(p, v1, v24, h) ==
    [Price |-> p, Volume1h |-> v1, Volume24h |-> v24, HolderCount |-> h]

(* what GetTokenMetrics returns: a price and a volume, or nil and an error *)
Metrics(p, v) == TokenMetrics(p, v, v, 100)
NoMetrics == TokenMetrics(-1, -1, -1, -1)
MetricInputs ==
    {Metrics(100, 100), Metrics(105, 120), Metrics(104, 119), Metrics(95, 100), Metrics(0, 0)}

(* "math.Abs(priceChange) > 5": a check that leaves out a change of 5% *)
PriceMovedStrictly(prev, cur) ==
    prev.Price > 0 /\ Abs(cur.Price - prev.Price) * 100 > 5 * prev.Price

(* "priceChange = (cur.Price - prev.Price) / prev.Price * 100" when
   prev.Price > 0, else 0; "math.Abs(priceChange) >= 5" *)
PriceMoved(prev, cur) ==
    prev.Price > 0 /\ Abs(cur.Price - prev.Price) * 100 >= 5 * prev.Price

(* "volumeChange = (cur.Volume24h - prev.Volume24h) / prev.Volume24h * 100"
   when prev.Volume24h > 0, else 0; "volumeChange >= 20" *)
VolumeSpiked(prev, cur) ==
    prev.Volume24h > 0 /\ (cur.Volume24h - prev.Volume24h) * 100 >= 20 * prev.Volume24h

Percent(old, new) == IF old > 0 THEN ((new - old) * 100) \div old ELSE 0

(* publishPriceChangeEvent and publishVolumeChangeEvent: the events *)
PriceChangeEvent(addr, prev, cur, now) ==
    [ID |-> "", Type |-> "price_change", Timestamp |-> now,
     Payload |-> MapVal([k \in {"token_address", "token_symbol", "price_change",
                                "is_positive"} |->
                    CASE k = "token_address" -> Str(addr)
                      [] k = "token_symbol" -> TokenSymbol
                      [] k = "price_change" -> FloatVal(Percent(prev.Price, cur.Price))
                      [] OTHER -> BoolVal(cur.Price > prev.Price)])]

VolumeChangeEvent(addr, prev, cur, now) ==
    [ID |-> "", Type |-> "volume_spike", Timestamp |-> now,
     Payload |-> MapVal([k \in {"token_address", "token_symbol", "volume_change"} |->
                    CASE k = "token_address" -> Str(addr)
                      [] k = "token_symbol" -> TokenSymbol
                      [] OTHER -> FloatVal(Percent(prev.Volume24h, cur.Volume24h))])]

(* the broker and the clock as one value, and PublishMessage on it: the call
   takes one instant; a failed XAdd leaves the stream as it is *)
Broker == [streams |-> streams, clock |-> clock, publishedOK |-> publishedOK]

AfterPublish(b, stream, m, sent) ==
    LET msg == Accepted(m, Now(b.clock + 1))
    IN  IF sent
        THEN [streams |-> XAdd(b.streams, stream, StreamValues(msg)),
              clock |-> b.clock + 1,
              publishedOK |-> b.publishedOK \cup
                  {[stream |-> stream, id |-> BrokerID(Len(b.streams[stream]) + 1),
                    msg |-> msg]}]
        ELSE [b EXCEPT !.clock = @ + 1]

(* the events one token gives in a check: none without metrics or without a
   snapshot *)
EventTypesOf(snap, addr, cur) ==
    IF cur = NoMetrics \/ ~Has(snap, addr) THEN {}
    ELSE {t \in {"price_change", "volume_spike"} :
             IF t = "price_change" THEN PriceMoved(snap[addr], cur)
             ELSE VolumeSpiked(snap[addr], cur)}

(* the loop of checkPriceMovements from the i-th token of the order on: a
   token without metrics is skipped; the snapshot is replaced; the price
   event is published before the volume event; lost are the events whose
   XAdd fails *)
RECURSIVE CheckFrom(_, _, _, _, _, _)
CheckFrom(order, i, snap, b, cur, lost) ==
    IF i > Len(order) THEN [metrics |-> snap, broker |-> b]
    ELSE LET addr == order[i]
             types == EventTypesOf(snap, addr, cur[addr])
             b1 == IF "price_change" \in types
                   THEN AfterPublish(b, "token_events",
                            PriceChangeEvent(addr, snap[addr], cur[addr], Now(b.clock + 1)),
                            <<addr, "price_change">> \notin lost)
                   ELSE b
             b2 == IF "volume_spike" \in types
                   THEN AfterPublish(b1, "token_events",
                            VolumeChangeEvent(addr, snap[addr], cur[addr], Now(b1.clock + 1)),
                            <<addr, "volume_spike">> \notin lost)
                   ELSE b1
         IN  IF cur[addr] = NoMetrics
             THEN CheckFrom(order, i + 1, snap, b, cur, lost)
             ELSE CheckFrom(order, i + 1, Put(snap, addr, cur[addr]), b2, cur, lost)

(* Engine.GetToken(addr) for a token that is not cached: GetTokenInfo
   succeeds and the token is cached *)
GetToken(addr) ==
    /\ addr \notin engineTokens
    /\ engineTokens' = engineTokens \cup {addr}
    /\ UNCHANGED <<processors, stopped, ctxDone, starts, startSnapshots, consumers, streams,
                   groups, clock, publishedOK, processCalls, acks, faults, processErrors,
                   engineCalls>>
    /\ UNCHANGED <<trustVars, monitorVars, besideMonitor>>

(* one tick of MonitorPriceMovements: checkPriceMovements over Engine.tokens
   in the order the map gives them *)
checkPriceMovements ==
    /\ ticks < MaxTicks
    /\ ticks' = ticks + 1
    /\ \E order \in WalletOrders(engineTokens),
          cur \in [engineTokens -> MetricInputs \cup {NoMetrics}] :
          LET attempted == {<<a, t>> \in engineTokens \X {"price_change", "volume_spike"} :
                               t \in EventTypesOf(metrics, a, cur[a])}
          IN  \E lost \in SUBSET attempted :
                 /\ Cardinality(lost) <= MaxFaults - faults
                 /\ faults' = faults + Cardinality(lost)
                 /\ LET after == CheckFrom(order, 1, metrics, Broker, cur, lost)
                    IN  /\ metrics' = after.metrics
                        /\ streams' = after.broker.streams
                        /\ clock' = after.broker.clock
                        /\ publishedOK' = after.broker.publishedOK
                 /\ tickResult' = [kind |-> "ok", cur |-> cur, lost |-> lost]
    /\ UNCHANGED <<processors, stopped, ctxDone, starts, startSnapshots, consumers, groups,
                   processCalls, acks, processErrors, engineTokens, engineCalls>>
    /\ UNCHANGED <<trustVars, besideMonitor>>

MonitorNext ==
    \/ \E a \in MonitoredTokens : GetToken(a)
    \/ checkPriceMovements

(* the program with only the price monitoring exercised *)
MonitorStart == PipelineInit /\ TrustIdle /\ MoreIdle

MonitorSpec == MonitorStart /\ [][MonitorNext]_vars

(* the events of a type for a token that the step put on token_events *)
NewEvents(type, addr) ==
    {e \in publishedOK' \ publishedOK :
        /\ e.stream = "token_events" /\ e.msg.Type = type
        /\ e.msg.Payload.fields["token_address"] = Str(addr)}

(* this step is a check in which the token had a snapshot and metrics *)
Compared(addr) ==
    /\ ticks' # ticks
    /\ addr \in engineTokens /\ Has(metrics, addr)
    /\ tickResult'.cur[addr] # NoMetrics

(* C21: in a check, for every watched token with a stored snapshot, one
   price_change event is published exactly when the price moved by 5% or more
   either way, one volume_spike event exactly when the 24h volume rose by 20%
   or more (an event whose XAdd failed aside), and the snapshot becomes the
   current metrics *)
C21_EventsAtThresholds ==
    [][\A a \in MonitoredTokens :
         Compared(a) =>
             LET prev == metrics[a]
                 cur == tickResult'.cur[a]
                 priceEvents == Cardinality(NewEvents("price_change", a))
                 volumeEvents == Cardinality(NewEvents("volume_spike", a))
             IN  /\ priceEvents =
                        IF /\ prev.Price > 0
                           /\ \/ (cur.Price - prev.Price) * 100 >= 5 * prev.Price
                              \/ (prev.Price - cur.Price) * 100 >= 5 * prev.Price
                           /\ <<a, "price_change">> \notin tickResult'.lost
                        THEN 1 ELSE 0
                 /\ volumeEvents =
                        IF /\ prev.Volume24h > 0
                           /\ (cur.Volume24h - prev.Volume24h) * 100 >= 20 * prev.Volume24h
                           /\ <<a, "volume_spike">> \notin tickResult'.lost
                        THEN 1 ELSE 0
                 /\ metrics'[a] = cur]_vars

(* a check has published a price_change of exactly 5% and a volume_spike of
   exactly 20% for a token whose snapshot is now the current metrics *)
C21_Witness ==
    /\ tickResult.kind = "ok"
    /\ \E a \in DOMAIN metrics :
           /\ tickResult.cur[a] = Metrics(105, 120) /\ metrics[a] = Metrics(105, 120)
           /\ \E e \in publishedOK :
                  /\ e.msg.Type = "price_change"
                  /\ e.msg.Payload.fields["token_address"] = Str(a)
                  /\ e.msg.Payload.fields["price_change"] = FloatVal(5)
           /\ \E e \in publishedOK :
                  /\ e.msg.Type = "volume_spike"
                  /\ e.msg.Payload.fields["token_address"] = Str(a)
                  /\ e.msg.Payload.fields["volume_change"] = FloatVal(20)

(* ---- the reactivation system: the comparison with the last snapshot ---- *)

(* a map of changes, in thousandths *)
Changes(v, p, h) == [volume_1h_change |-> v, price_change |-> p, holder_growth |-> h]

(* a comparison that takes a missing snapshot for a snapshot of zeros *)
calculateMetricChangesFromZero(current, previous) ==
    LET prev == IF previous = NoMetrics THEN TokenMetrics(0, 0, 0, 0) ELSE previous
    IN  Changes(IF current.Volume1h > 0 /\ prev.Volume1h > 0
                    THEN (current.Volume1h * 1000) \div prev.Volume1h
                ELSE IF current.Volume1h > 0 THEN 10000 ELSE 0,
                IF current.Price > 0 /\ prev.Price > 0
                    THEN ((current.Price - prev.Price) * 1000) \div prev.Price
                ELSE 0,
                IF current.HolderCount > 0 /\ prev.HolderCount > 0
                    THEN ((current.HolderCount - prev.HolderCount) * 1000) \div prev.HolderCount
                ELSE 0)

(* System.calculateMetricChanges: zeros when previous is nil; else the ratio
   of the 1h volumes (10.0 when the previous volume was 0), the relative
   change of the price and the relative growth of the holders *)
calculateMetricChanges(current, previous) ==
    IF previous = NoMetrics THEN Changes(0, 0, 0)
    ELSE Changes(IF current.Volume1h > 0 /\ previous.Volume1h > 0
                     THEN (current.Volume1h * 1000) \div previous.Volume1h
                 ELSE IF current.Volume1h > 0 THEN 10000 ELSE 0,
                 IF current.Price > 0 /\ previous.Price > 0
                     THEN ((current.Price - previous.Price) * 1000) \div previous.Price
                 ELSE 0,
                 IF current.HolderCount > 0 /\ previous.HolderCount > 0
                     THEN ((current.HolderCount - previous.HolderCount) * 1000)
                              \div previous.HolderCount
                 ELSE 0)

(* this step is a check in which the token had metrics and no snapshot *)
FirstSeen(addr) ==
    /\ ticks' # ticks
    /\ addr \in engineTokens /\ ~Has(metrics, addr)
    /\ tickResult'.cur[addr] # NoMetrics

(* C22: for a token without a snapshot the comparison gives zero changes, the
   check publishes no price_change and no volume_spike event for it, and the
   current metrics become its snapshot *)
C22_FirstCheckOnlyStores ==
    [][\A a \in MonitoredTokens :
         FirstSeen(a) =>
             /\ calculateMetricChanges(tickResult'.cur[a], NoMetrics) = Changes(0, 0, 0)
             /\ NewEvents("price_change", a) = {}
             /\ NewEvents("volume_spike", a) = {}
             /\ Has(metrics', a) /\ metrics'[a] = tickResult'.cur[a]]_vars

(* a check has stored the first snapshot of a token, with a price and a volume
   above zero, while it published an event for another token *)
C22_Witness ==
    /\ tickResult.kind = "ok"
    /\ \E a \in DOMAIN metrics, b \in DOMAIN metrics :
           /\ a # b
           /\ tickResult.cur[a] = Metrics(105, 120) /\ metrics[a] = Metrics(105, 120)
           /\ \A e \in publishedOK : e.msg.Payload.fields["token_address"] # Str(a)
           /\ \E e \in publishedOK : e.msg.Payload.fields["token_address"] = Str(b)

-----------------------------------------------------------------------------
(* The token engine: anti-dump patterns and the X-Score. Both are functions of
   what the gateway returns and of the wallet analysis the caller passes. *)

MaxTrades == 5

ClusterWindow == 300
MinClusterSize == 3
MinSells == 5
DetectionThreshold == 30

(* models.TokenTrade: the fields checkAntiDumpPattern reads; timestamps in
   seconds *)
Trade(type, wallet, ts) ==
    [TradeType |-> type, WalletAddress |-> wallet, Timestamp |-> ts, TotalValue |-> 1000]

TradeInputs ==
    {Trade("sell", "W1", t) : t \in {0, 300, 601}}
        \cup {Trade("sell", "W2", 0), Trade("buy", "W1", 0)}

(* what GetTokenRecentTrades(addr, 24) returns, in the order of the gateway;
   the empty list stands for an error too *)
TradeLists == UNION {[1..n -> TradeInputs] : n \in 0..MaxTrades}

(* models.WalletAnalysis: ratios in hundredths, the early trusted ratio and
   the smart money activity taken equal; SmartWallets are the addresses of the
   WalletDetails with the category "smart" *)
Analysis(fresh, bluechip, buySell, smartMoney, early, snipers, smart) ==
    [TotalWallets |-> 100, Fresh |-> fresh, Bot |-> 0, Bluechip |-> bluechip,
     BuySellRatio |-> buySell, SmartMoneyRatio |-> smartMoney,
     EarlyTrustedRatio |-> early, SmartMoneyActivity |-> early,
     SniperCount |-> snipers, SmartWallets |-> smart]

(* the nil *WalletAnalysis, and the analysis CalculateXScore makes of it *)
NilAnalysis == [Analysis(0, 0, 0, 0, 0, 0, {}) EXCEPT !.TotalWallets = -1]
DefaultAnalysis(holders) == [Analysis(0, 0, 0, 0, 0, 0, {}) EXCEPT !.TotalWallets = holders]

AnalysisInputs ==
    {NilAnalysis} \cup
    {Analysis(fresh, bluechip, buySell, smartMoney, early, snipers, {}) :
        fresh \in {0, 80}, bluechip \in {0, 20}, buySell \in {100, 400},
        smartMoney \in {0, 50}, early \in {0, 60}, snipers \in {0, 3}}

(* models.Token and the models.TokenMetrics of the gateway: the fields the
   score reads; PriceChange1h in hundredths *)
TokenInputs ==
    {[HolderCount |-> h, Website |-> s, Twitter |-> s, Telegram |-> s] :
        h \in {100, 2000}, s \in {"", "x"}}

ScoreMetricsInputs ==
    {[MarketCap |-> cap, Volume1h |-> vol, PriceChange1h |-> change,
      BuyCount1h |-> buys, SellCount1h |-> 10, HolderCount |-> 100] :
        cap \in {100000, 2000000}, vol \in {1000, 200000},
        change \in {-100, 0, 500}, buys \in {10, 30}}

ScoreInput(trades, analysis, token, m) ==
    [trades |-> trades, analysis |-> analysis, token |-> token, metrics |-> m]

PlainToken == [HolderCount |-> 100, Website |-> "", Twitter |-> "", Telegram |-> ""]
PlainMetrics ==
    [MarketCap |-> 100000, Volume1h |-> 1000, PriceChange1h |-> 0,
     BuyCount1h |-> 10, SellCount1h |-> 10, HolderCount |-> 100]
FiveSells == [i \in 1..5 |-> Trade("sell", "W1", 0)]

(* the inputs of one call: every trade list with a plain token, or every
   token, metrics and analysis with no trades or with five sells at once *)
ScoreInputs ==
    {ScoreInput(t, a, PlainToken, PlainMetrics) :
        t \in TradeLists,
        a \in {NilAnalysis, Analysis(0, 0, 100, 0, 0, 0, {"W1"})}}
    \cup
    {ScoreInput(t, a, k, m) :
        t \in {<<>>, FiveSells}, a \in AnalysisInputs, k \in TokenInputs,
        m \in ScoreMetricsInputs}

(* ---- checkAntiDumpPattern ---- *)

(* "Filtrer ventes uniquement" *)
Sells(transactions) == SelectSeq(transactions, LAMBDA tx : tx.TradeType = "sell")

(* the loop over the sells in the order they came: a sell joins the current
   cluster when it is at most 300 s after the last sell of the cluster; a
   cluster that is closed is kept when it has 3 sells or more *)
RECURSIVE ClustersFrom(_, _, _, _)
ClustersFrom(sells, i, current, done) ==
    LET closed == IF Len(current) >= MinClusterSize THEN Append(done, current) ELSE done
    IN  IF i > Len(sells) THEN closed
        ELSE IF i = 1 THEN ClustersFrom(sells, 2, <<sells[1]>>, done)
        ELSE IF sells[i].Timestamp - current[Len(current)].Timestamp <= ClusterWindow
             THEN ClustersFrom(sells, i + 1, Append(current, sells[i]), done)
             ELSE ClustersFrom(sells, i + 1, <<sells[i]>>, closed)

WalletsOf(cluster) == {cluster[i].WalletAddress : i \in 1..Len(cluster)}

RECURSIVE TotalVolume(_)
TotalVolume(cluster) ==
    IF cluster = <<>> THEN 0
    ELSE cluster[1].TotalValue + TotalVolume(Tail(cluster))

(* "Calculer gravite du cluster" *)
ClusterSeverity(cluster, analysis) ==
    LET uniqueWallets == Cardinality(WalletsOf(cluster))
        smartSellerCount == Cardinality(WalletsOf(cluster) \cap analysis.SmartWallets)
    IN  IF smartSellerCount > 0
        THEN Min(100, smartSellerCount * 20 + TotalVolume(cluster) \div 100)
        ELSE Min(60, uniqueWallets * 10 + TotalVolume(cluster) \div 200)

DumpCluster(cluster, analysis) ==
    [TimestampStart |-> cluster[1].Timestamp,
     TimestampEnd |-> cluster[Len(cluster)].Timestamp,
     DurationSeconds |-> cluster[Len(cluster)].Timestamp - cluster[1].Timestamp,
     TransactionCount |-> Len(cluster),
     UniqueWallets |-> Cardinality(WalletsOf(cluster)),
     SmartWallets |-> Cardinality(WalletsOf(cluster) \cap analysis.SmartWallets),
     TotalVolume |-> TotalVolume(cluster),
     Severity |-> ClusterSeverity(cluster, analysis)]

(* "if severity > highestSeverity", from 0.0 *)
RECURSIVE HighestSeverity(_)
HighestSeverity(clusters) ==
    IF clusters = <<>> THEN 0
    ELSE LET rest == HighestSeverity(Tail(clusters))
         IN  IF clusters[1].Severity > rest THEN clusters[1].Severity ELSE rest

NoDump == [Detected |-> FALSE, Severity |-> 0, Clusters |-> <<>>]

(* a detection that leaves out the severity 30 *)
IsDetectedAbove(severity) == severity > DetectionThreshold

(* "Detected: highestSeverity >= 30" *)
IsDetected(severity) == severity >= DetectionThreshold

(* the AntiDumpResult for the trades of the last 24 hours *)
AntiDumpOf(transactions, analysis) ==
    LET sells == Sells(transactions)
        clusters == ClustersFrom(sells, 1, <<>>, <<>>)
        analyzed == [i \in 1..Len(clusters) |-> DumpCluster(clusters[i], analysis)]
        highest == HighestSeverity(analyzed)
    IN  IF Len(transactions) = 0 \/ Len(sells) < MinSells \/ Len(clusters) = 0
        THEN NoDump
        ELSE [Detected |-> IsDetected(highest), Severity |-> highest,
              Clusters |-> analyzed]

(* ---- CalculateXScore: qualities from 0 to 100, scores in hundredths ---- *)

Bounded(lo, hi, x) == IF x < lo THEN lo ELSE IF x > hi THEN hi ELSE x

calculateTokenQuality(token, m) ==
    LET holders == IF token.HolderCount > 1000 THEN 10
                   ELSE IF token.HolderCount > 500 THEN 5 ELSE 0
        cap == IF m.MarketCap > 1000000 THEN 10
               ELSE IF m.MarketCap > 500000 THEN 5 ELSE 0
        social == (IF token.Website # "" THEN 5 ELSE 0)
                  + (IF token.Twitter # "" THEN 5 ELSE 0)
                  + (IF token.Telegram # "" THEN 5 ELSE 0)
        wash == IF m.MarketCap > 0 /\ m.Volume1h * 10 > 5 * m.MarketCap THEN 20
                ELSE IF m.MarketCap > 0 /\ m.Volume1h * 10 > 3 * m.MarketCap THEN 10
                ELSE 0
    IN  Bounded(0, 100, 50 + holders + cap + social - wash)

calculateWalletQuality(a) ==
    LET total == a.TotalWallets
        fresh == IF total > 0 /\ a.Fresh * 10 > 7 * total THEN 30
                 ELSE IF total > 0 /\ a.Fresh * 10 > 5 * total THEN 15 ELSE 0
        bot == IF total > 0 /\ a.Bot * 10 > 4 * total THEN 20
               ELSE IF total > 0 /\ a.Bot * 10 > 2 * total THEN 10 ELSE 0
        bluechip == IF total > 0 /\ a.Bluechip * 10 > total THEN 20
                    ELSE IF total > 0 /\ a.Bluechip * 100 > 5 * total THEN 10 ELSE 0
        ratio == IF a.BuySellRatio > 300 THEN 15
                 ELSE IF a.BuySellRatio > 200 THEN 10
                 ELSE IF a.BuySellRatio < 50 THEN -20
                 ELSE IF a.BuySellRatio < 80 THEN -10 ELSE 0
    IN  Bounded(0, 100, 50 - fresh - bot + bluechip + ratio)

calculateTrustFactor(a) ==
    LET smart == IF a.TotalWallets <= 0 THEN 0
                 ELSE IF a.SmartMoneyRatio > 20 THEN 30
                 ELSE IF a.SmartMoneyRatio > 10 THEN 20
                 ELSE IF a.SmartMoneyRatio > 5 THEN 10 ELSE 0
        early == IF a.TotalWallets <= 0 THEN 0
                 ELSE IF a.EarlyTrustedRatio > 50 THEN 20
                 ELSE IF a.EarlyTrustedRatio > 30 THEN 10 ELSE 0
        activity == IF a.SmartMoneyActivity > 50 THEN 15
                    ELSE IF a.SmartMoneyActivity > 30 THEN 10 ELSE 0
    IN  Bounded(0, 100, 50 + smart + early + activity)

calculateMarketDynamics(m) ==
    LET volume == IF m.Volume1h > 100000 THEN 20
                  ELSE IF m.Volume1h > 50000 THEN 15
                  ELSE IF m.Volume1h > 10000 THEN 10 ELSE 0
        price == IF m.PriceChange1h > 20 THEN 15
                 ELSE IF m.PriceChange1h > 10 THEN 10
                 ELSE IF m.PriceChange1h < -20 THEN -15
                 ELSE IF m.PriceChange1h < -10 THEN -10 ELSE 0
        buys == IF m.SellCount1h > 0 THEN m.BuyCount1h ELSE 1
        sells == IF m.SellCount1h > 0 THEN m.SellCount1h ELSE 1
        ratio == IF buys > 2 * sells THEN 15
                 ELSE IF 2 * buys > 3 * sells THEN 10
                 ELSE IF 2 * buys < sells THEN -15
                 ELSE IF 5 * buys < 4 * sells THEN -10 ELSE 0
    IN  Bounded(0, 100, 50 + volume + price + ratio)

calculateTemporalPatterns == 60
calculateReactivationFactor == 0

(* the components of the score, in hundredths of a point *)
Components(token, m, a) ==
    [token_quality |-> calculateTokenQuality(token, m) * 20,
     wallet_quality |-> calculateWalletQuality(a) * 25,
     trust_factor |-> calculateTrustFactor(a) * 20,
     market_factor |-> calculateMarketDynamics(m) * 15,
     temporal_factor |-> calculateTemporalPatterns * 10,
     reactivation_factor |-> calculateReactivationFactor * 10,
     sniper_bonus |-> IF a.SniperCount >= 3 THEN 500 ELSE (500 * a.SniperCount) \div 3,
     price_smart_boost |-> (m.PriceChange1h * a.SmartMoneyRatio) \div 10]

(* "baseScore += value" over the components *)
BaseScore(c) ==
    c.token_quality + c.wallet_quality + c.trust_factor + c.market_factor
        + c.temporal_factor + c.reactivation_factor + c.sniper_bonus + c.price_smart_boost

(* the XScoreResult of a call whose metrics and token were found *)
XScoreOf(input) ==
    LET a == IF input.analysis = NilAnalysis
             THEN DefaultAnalysis(input.metrics.HolderCount) ELSE input.analysis
        components == Components(input.token, input.metrics, a)
        baseScore == BaseScore(components)
        antiDump == AntiDumpOf(input.trades, a)
        finalScore == IF antiDump.Detected
                      THEN (baseScore * (100 - Min(90, antiDump.Severity))) \div 100
                      ELSE baseScore
    IN  [kind |-> "ok", XScore |-> Bounded(0, 10000, finalScore), BaseScore |-> baseScore,
         Components |-> components, AntiDump |-> antiDump]

(* ---- the calls ---- *)

(* Engine.checkAntiDumpPattern(addr, walletAnalysis) *)
checkAntiDumpPattern ==
    /\ antiDumpResult' = AntiDumpOf(scoreInput.trades, scoreInput.analysis)
    /\ xScoreResult' = [kind |-> "none"]
    /\ UNCHANGED scoreInput
    /\ UNCHANGED <<pipeVars, trustVars, besideScore>>

(* Engine.CalculateXScore(addr, walletAnalysis): GetTokenMetrics or GetToken
   may fail *)
CalculateXScore ==
    /\ \E found \in BOOLEAN :
           xScoreResult' = IF found THEN XScoreOf(scoreInput) ELSE [kind |-> "error"]
    /\ antiDumpResult' = [kind |-> "none"]
    /\ UNCHANGED scoreInput
    /\ UNCHANGED <<pipeVars, trustVars, besideScore>>

ScoreNext ==
    \/ checkAntiDumpPattern
    \/ CalculateXScore

(* the program before one scoring call, for every input of the bounded sets *)
ScoreStart ==
    /\ PipelineInit /\ TrustIdle /\ MonitorIdle /\ ReactIdle /\ AppIdle /\ AlertIdle
    /\ ExtraIdle
    /\ scoreInput \in ScoreInputs
    /\ antiDumpResult = [kind |-> "none"]
    /\ xScoreResult = [kind |-> "none"]

ScoreSpec == ScoreStart /\ [][ScoreNext]_vars

(* ---- properties of the scoring ---- *)

(* the sells in timestamp order *)
RECURSIVE SortByTimestamp(_)
SortByTimestamp(sells) ==
    IF sells = <<>> THEN <<>>
    ELSE LET n == Len(sells)
             sorted == SortByTimestamp(SubSeq(sells, 1, n - 1))
             k == Cardinality({i \in 1..(n - 1) : sorted[i].Timestamp <= sells[n].Timestamp})
         IN  SubSeq(sorted, 1, k) \o <<sells[n]>> \o SubSeq(sorted, k + 1, n - 1)

(* the maximal runs of a sorted list whose consecutive gaps are at most 300 s
   and that have 3 sells or more, as pairs of positions *)
MaximalRuns(sorted) ==
    LET n == Len(sorted)
        Near(i) == sorted[i + 1].Timestamp - sorted[i].Timestamp <= ClusterWindow
    IN  {r \in (1..n) \X (1..n) :
            /\ r[2] - r[1] + 1 >= MinClusterSize
            /\ \A i \in r[1]..(r[2] - 1) : Near(i)
            /\ r[1] = 1 \/ ~Near(r[1] - 1)
            /\ r[2] = n \/ ~Near(r[2])}

(* a cluster by its first timestamp, its last timestamp and its size *)
RunSpans(sorted) ==
    {<<sorted[r[1]].Timestamp, sorted[r[2]].Timestamp, r[2] - r[1] + 1>> :
        r \in MaximalRuns(sorted)}

ClusterSpans(clusters) ==
    {<<clusters[i].TimestampStart, clusters[i].TimestampEnd, clusters[i].TransactionCount>> :
        i \in 1..Len(clusters)}

AntiDumpReturned == antiDumpResult # [kind |-> "none"]

(* C23: whatever the order of the sells, the clusters reported are the maximal
   runs, in timestamp order, of sells at most 300 s apart with 3 sells or
   more *)
C23_ClustersAreMaximalRuns ==
    AntiDumpReturned =>
        LET sorted == SortByTimestamp(Sells(scoreInput.trades))
        IN  /\ ClusterSpans(antiDumpResult.Clusters) = RunSpans(sorted)
            /\ Len(antiDumpResult.Clusters) = Cardinality(MaximalRuns(sorted))

(* C24: a result is detected exactly when its severity, the highest of its
   clusters, is 30 or more; without sells it is not detected, with severity 0
   and no cluster *)
C24_DetectedIffSeverity ==
    AntiDumpReturned =>
        /\ antiDumpResult.Detected <=> antiDumpResult.Severity >= 30
        /\ antiDumpResult.Severity = HighestSeverity(antiDumpResult.Clusters)
        /\ \A i \in 1..Len(antiDumpResult.Clusters) :
               antiDumpResult.Clusters[i].Severity <= antiDumpResult.Severity
        /\ Sells(scoreInput.trades) = <<>> =>
               /\ ~antiDumpResult.Detected
               /\ antiDumpResult.Severity = 0
               /\ antiDumpResult.Clusters = <<>>

(* a dump is detected at the severity 30 exactly *)
C24_Witness ==
    /\ AntiDumpReturned
    /\ antiDumpResult.Detected /\ antiDumpResult.Severity = 30
    /\ Len(antiDumpResult.Clusters) = 1

(* C25: the xScore and the baseScore of a result are both from 0 to 100 *)
C25_ScoresInRange ==
    xScoreResult.kind = "ok" =>
        /\ xScoreResult.XScore >= 0 /\ xScoreResult.XScore <= 10000
        /\ xScoreResult.BaseScore >= 0 /\ xScoreResult.BaseScore <= 10000

-----------------------------------------------------------------------------
(* The reactivation system: a goroutine scans the dormant tokens at every tick
   and processes the candidates of the scan one after the other. *)

MaxScans == 2

(* GetTokensByStates: whatever the states asked for, the same two tokens *)
DormantTokens == <<"SOLDOGE", "CATZ">>

(* GetTokenLastSnapshot: always the same snapshot; prices in thousandths *)
LastSnapshot == TokenMetrics(100, 1000, 24000, 100)

(* "if reactivationScore >= 60" *)
ReactivationThreshold == Points(60)

(* what GetTokenMetrics returns in a scan: metrics that score 100, 60 and
   59.9 against the snapshot, or an error *)
ScanMetricInputs ==
    {TokenMetrics(130, 5000, 24000, 110), TokenMetrics(130, 3000, 24000, 100),
     TokenMetrics(130, 2990, 24000, 100), NoMetrics}

(* models.SmartWalletReturns, by the number of wallets that came back and
   their volume; the nil pointer that detectSmartWalletReturns returns with an
   error *)
SmartReturns(wallets, volume) ==
    [Detected |-> wallets >= 2, Wallets |-> wallets, ReturningTotalVolume |-> volume]
NilSmartReturns == [Detected |-> FALSE, Wallets |-> -1, ReturningTotalVolume |-> -1]
SmartReturnInputs == {NilSmartReturns, SmartReturns(0, 0), SmartReturns(2, 500)}

(* System.calculateReactivationScore, in hundredths of a point; the changes
   are in thousandths *)
calculateReactivationScore(changes, smartReturns) ==
    LET volumeFactor == Min(1000, changes.volume_1h_change \div 5)
        priceFactor == Min(1000, (changes.price_change * 10) \div 3)
        holdersFactor == Min(1000, changes.holder_growth * 10)
        baseScore == 5 * volumeFactor + 3 * priceFactor + 2 * holdersFactor
        smartWalletBonus ==
            IF smartReturns # NilSmartReturns /\ smartReturns.Detected
            THEN (21 * Min(1000, smartReturns.Wallets * 200)
                      + 9 * Min(1000, smartReturns.ReturningTotalVolume * 2)) \div 10
            ELSE 0
    IN  Bounded(0, Points(100), baseScore + smartWalletBonus)

(* the score ScanDormantTokens gives a token; -1 when it has no metrics *)
ScanScore(addr, cur, smart) ==
    IF cur[addr] = NoMetrics THEN -1
    ELSE calculateReactivationScore(calculateMetricChanges(cur[addr], LastSnapshot),
                                    smart[addr])

(* System.ScanDormantTokens from the i-th token on: a token without metrics
   is skipped, a token that scores 60 or more is a candidate *)
RECURSIVE CandidatesFrom(_, _, _)
CandidatesFrom(i, cur, smart) ==
    IF i > Len(DormantTokens) THEN <<>>
    ELSE LET addr == DormantTokens[i]
             score == ScanScore(addr, cur, smart)
             rest == CandidatesFrom(i + 1, cur, smart)
         IN  IF cur[addr] # NoMetrics /\ score >= ReactivationThreshold
             THEN <<[TokenAddress |-> addr, ReactivationScore |-> score,
                     SmartReturns |-> smart[addr]]>> \o rest
             ELSE rest

(* System.Start: "s.running = true; go s.scanRoutine(ctx)" *)
SystemStart ==
    /\ scanPc = "idle"
    /\ running' = TRUE
    /\ scanPc' = "loop"
    /\ UNCHANGED <<pending, shutdownDone, scans, cycle>>
    /\ UNCHANGED <<pipeVars, trustVars, besideReact>>

(* System.Shutdown: "s.running = false; return nil" *)
SystemShutdown ==
    /\ scanPc \notin {"idle", "panicked"}
    /\ ~shutdownDone
    /\ running' = FALSE
    /\ shutdownDone' = TRUE
    /\ UNCHANGED <<scanPc, pending, scans, cycle>>
    /\ UNCHANGED <<pipeVars, trustVars, besideReact>>

(* scanRoutine: "for s.running": the field is read without synchronisation,
   so after Shutdown the read gives the new value or the old one *)
scanRoutineLoop ==
    /\ scanPc = "loop"
    /\ \E seen \in (IF running THEN {TRUE} ELSE {TRUE, FALSE}) :
           scanPc' = IF seen THEN "select" ELSE "returned"
    /\ UNCHANGED <<running, pending, shutdownDone, scans, cycle>>
    /\ UNCHANGED <<pipeVars, trustVars, besideReact>>

(* scanRoutine: "case <-ctx.Done(): return" *)
scanRoutineCtxDone ==
    /\ scanPc = "select"
    /\ ctxDone
    /\ scanPc' = "returned"
    /\ UNCHANGED <<running, pending, shutdownDone, scans, cycle>>
    /\ UNCHANGED <<pipeVars, trustVars, besideReact>>

(* scanRoutine: "case <-ticker.C": ScanDormantTokens runs and its candidates
   are about to be processed *)
scanRoutineTick ==
    /\ scanPc = "select"
    /\ scans < MaxScans
    /\ scans' = scans + 1
    /\ \E cur \in [{DormantTokens[i] : i \in 1..Len(DormantTokens)} -> ScanMetricInputs],
          smart \in [{DormantTokens[i] : i \in 1..Len(DormantTokens)} -> SmartReturnInputs] :
          /\ pending' = CandidatesFrom(1, cur, smart)
          /\ cycle' = [kind |-> "scan", n |-> scans + 1,
                       scores |-> [a \in DOMAIN cur |-> ScanScore(a, cur, smart)],
                       calls |-> <<>>, before |-> publishedOK]
          /\ scanPc' = IF pending' = <<>> THEN "loop" ELSE "process"
    /\ UNCHANGED <<running, shutdownDone>>
    /\ UNCHANGED <<pipeVars, trustVars, besideReact>>

(* System.ProcessReactivationCandidate for the next candidate of the scan:
   UpdateTokenState, which fails when the token cannot be resolved, then
   SaveReactivationMetrics, then the log line that reads
   candidate.SmartReturns.Wallets and panics when SmartReturns is nil *)
ProcessReactivationCandidate ==
    /\ scanPc = "process"
    /\ LET c == Head(pending)
           addr == c.TokenAddress
           next == IF Len(pending) = 1 THEN "loop" ELSE "process"
       IN  \/ /\ addr \notin engineTokens
              /\ faults < MaxFaults
              /\ faults' = faults + 1
              /\ engineCalls' = engineCalls \cup
                     {EngineCall("UpdateTokenState", addr, "REACTIVATED", FALSE, FALSE, "error")}
              /\ cycle' = [cycle EXCEPT !.calls =
                     Append(@, [addr |-> addr, op |-> "UpdateTokenState", sent |-> FALSE,
                                result |-> "error"])]
              /\ pending' = Tail(pending)
              /\ scanPc' = next
              /\ UNCHANGED <<streams, clock, publishedOK, engineTokens>>
           \/ \E sent1 \in BOOLEAN, sent2 \in BOOLEAN :
                 LET lost == Cardinality({s \in {<<1, sent1>>, <<2, sent2>>} : ~s[2]})
                     b1 == AfterPublish(Broker, "token_events",
                               StateChangeEvent(addr, "REACTIVATED", Now(clock + 1)), sent1)
                     b2 == AfterPublish(b1, "token_events",
                               ReactivationEvent(addr, Now(b1.clock + 1)), sent2)
                     call1 == EngineCall("UpdateTokenState", addr, "REACTIVATED", TRUE, sent1,
                                         "nil")
                     call2 == [EngineCall("SaveReactivationMetrics", addr, "", TRUE, sent2,
                                          "nil")
                                  EXCEPT !.n = Cardinality(engineCalls) + 2,
                                         !.before = "REACTIVATED",
                                         !.id = IF sent2
                                                THEN BrokerID(Len(b1.streams["token_events"]) + 1)
                                                ELSE ""]
                 IN  /\ lost <= MaxFaults - faults
                     /\ faults' = faults + lost
                     /\ engineTokens' = engineTokens \cup {addr}
                     /\ streams' = b2.streams
                     /\ clock' = b2.clock
                     /\ publishedOK' = b2.publishedOK
                     /\ engineCalls' = engineCalls \cup {call1, call2}
                     /\ cycle' = [cycle EXCEPT !.calls = @ \o
                            <<[addr |-> addr, op |-> "UpdateTokenState", sent |-> sent1,
                               result |-> "nil"],
                              [addr |-> addr, op |-> "SaveReactivationMetrics",
                               sent |-> sent2, result |-> "nil"]>>]
                     /\ pending' = Tail(pending)
                     /\ scanPc' = IF c.SmartReturns = NilSmartReturns THEN "panicked"
                                  ELSE next
    /\ UNCHANGED <<running, shutdownDone, scans>>
    /\ UNCHANGED <<processors, stopped, ctxDone, starts, startSnapshots, consumers, groups,
                   processCalls, acks, processErrors>>
    /\ UNCHANGED <<trustVars, besideReact>>

ReactNext ==
    \/ SystemStart
    \/ SystemShutdown
    \/ CancelCtx
    \/ scanRoutineLoop
    \/ scanRoutineCtxDone
    \/ scanRoutineTick
    \/ ProcessReactivationCandidate

(* the program with only the reactivation system exercised *)
ReactStart == PipelineInit /\ TrustIdle /\ MoreIdle

ReactSpec == ReactStart /\ [][ReactNext]_vars

(* ---- properties of the reactivation system ---- *)

(* the scan cycle is over: every candidate was processed, or the goroutine
   panicked *)
CycleEnded == cycle.kind = "scan" /\ scanPc # "process"

(* the engine calls of the cycle for a token, in order *)
CycleOps(addr) ==
    LET calls == SelectSeq(cycle.calls, LAMBDA c : c.addr = addr)
    IN  [i \in 1..Len(calls) |-> calls[i].op]

(* the reactivation events of the cycle for a token *)
CycleEvents(addr) ==
    {e \in publishedOK \ cycle.before :
        /\ e.stream = "token_events" /\ e.msg.Type = "reactivation"
        /\ e.msg.Payload.fields["token_address"] = Str(addr)}

(* C26: when a scan cycle is over, every scanned token that scored 60 or more
   got UpdateTokenState and then SaveReactivationMetrics, with one
   reactivation event on token_events (an event whose XAdd failed aside), and
   no token that scored less got either call *)
C26_CandidatesProcessedOnce ==
    CycleEnded =>
        \A a \in DOMAIN cycle.scores :
            IF cycle.scores[a] >= ReactivationThreshold
            THEN /\ CycleOps(a) = <<"UpdateTokenState", "SaveReactivationMetrics">>
                 /\ Cardinality(CycleEvents(a)) =
                        IF \E i \in 1..Len(cycle.calls) :
                               /\ cycle.calls[i].addr = a
                               /\ cycle.calls[i].op = "SaveReactivationMetrics"
                               /\ ~cycle.calls[i].sent
                        THEN 0 ELSE 1
            ELSE CycleOps(a) = <<>>

(* C27: a scan reports no token that an earlier UpdateTokenState moved to
   REACTIVATED *)
C27_ReactivatedNotReportedAgain ==
    [][scans' # scans =>
          \A i \in 1..Len(pending') :
              StateBefore(pending'[i].TokenAddress) # "REACTIVATED"]_vars

(* the number of engine calls of the current cycle *)
ProcessedCalls == IF cycle.kind = "scan" THEN Len(cycle.calls) ELSE 0

(* C29: once Shutdown has returned, no scan starts and no candidate is
   processed *)
C29_NothingAfterShutdown ==
    [][shutdownDone => scans' = scans /\ ProcessedCalls' = ProcessedCalls]_vars

-----------------------------------------------------------------------------
(* The application and its alert manager: Start and Stop of the components,
   and the in-memory list of alerts. *)

MaxAlerts == 2
MaxAlertCalls == 4

(* the calls Application.Stop makes after it cancelled the context, in order *)
StopCalls == <<"api", "alerting", "pipeline", "reactivation", "cache", "db">>

(* Application.Start: pipeline.Start, reactivation.Start, alertManager.Start
   and the goroutine of the API server; no processor was registered *)
ApplicationStart ==
    /\ appPc = "new"
    /\ starts < MaxStarts
    /\ appPc' = "started"
    /\ stopped' = FALSE
    /\ starts' = starts + 1
    /\ startSnapshots' = Append(startSnapshots, processors)
    /\ consumers' = consumers \o Spawned(processors)
    /\ running' = TRUE
    /\ scanPc' = "loop"
    /\ UNCHANGED <<processors, ctxDone, streams, groups, clock, publishedOK, processCalls,
                   acks, faults, processErrors, engineVars>>
    /\ UNCHANGED <<pending, shutdownDone, scans, cycle, stopLog>>
    /\ UNCHANGED <<trustVars, monitorVars, scoreVars, alertVars, extraVars>>

(* Application.Stop: the context is cancelled, then the API server, the alert
   manager, the pipeline and the reactivation system are shut down, then
   Redis and the database are closed *)
ApplicationStop ==
    /\ appPc = "started"
    /\ appPc' = "stopped"
    /\ ctxDone' = TRUE
    /\ stopped' = TRUE
    /\ running' = FALSE
    /\ shutdownDone' = TRUE
    /\ stopLog' = stopLog \o StopCalls
    /\ UNCHANGED <<processors, starts, startSnapshots, consumers, streams, groups, clock,
                   publishedOK, processCalls, acks, faults, processErrors, engineVars>>
    /\ UNCHANGED <<scanPc, pending, scans, cycle>>
    /\ UNCHANGED <<trustVars, monitorVars, scoreVars, alertVars, extraVars>>

(* "alert_%d" of time.Now().UnixNano() *)
AlertID(t) == "alert_" \o ToString(t)

AlertTokens == {"T1", "T2"}
AlertSeverities == {"URGENT", "LOW"}

(* what time.Now() can give: the last reading again, when the clock has not
   moved since, or a later one *)
Readings == {alertClock, alertClock + 1}

(* Manager.CreateAlert: the alert is appended and returned *)
CreateAlert(tokenAddress, alertType, severity) ==
    /\ Len(alerts) < MaxAlerts
    /\ alertResult.n < MaxAlertCalls
    /\ \E now \in Readings :
           /\ alertClock' = now
           /\ alerts' = Append(alerts,
                  [ID |-> AlertID(now), TokenAddress |-> tokenAddress,
                   AlertType |-> alertType, Severity |-> severity, DetectedAt |-> now,
                   ConfirmationCount |-> 0, IsConfirmed |-> FALSE])
           /\ alertResult' = [kind |-> "create", n |-> alertResult.n + 1,
                              id |-> AlertID(now), index |-> Len(alerts) + 1,
                              error |-> FALSE]
    /\ UNCHANGED <<pipeVars, trustVars, monitorVars, scoreVars, reactVars, appVars,
                   extraVars>>

(* the first alert of the list with the ID; 0 when there is none *)
FirstWithID(id) ==
    IF \E i \in 1..Len(alerts) : alerts[i].ID = id
    THEN CHOOSE i \in 1..Len(alerts) :
             alerts[i].ID = id /\ \A j \in 1..(i - 1) : alerts[j].ID # id
    ELSE 0

(* "m.alerts[i].ConfirmationCount++; m.alerts[i].IsConfirmed = true" *)
ConfirmedAlert(a) == [a EXCEPT !.ConfirmationCount = @ + 1, !.IsConfirmed = TRUE]

(* Manager.ConfirmAlert(alertID): "alert not found" when no alert has the ID *)
ConfirmAlert(alertID) ==
    /\ alertResult.n < MaxAlertCalls
    /\ LET i == FirstWithID(alertID)
       IN  /\ alerts' = IF i = 0 THEN alerts
                        ELSE [alerts EXCEPT ![i] = ConfirmedAlert(@)]
           /\ alertResult' = [kind |-> "confirm", n |-> alertResult.n + 1,
                              id |-> alertID, index |-> i, error |-> i = 0]
    /\ UNCHANGED alertClock
    /\ UNCHANGED <<pipeVars, trustVars, monitorVars, scoreVars, reactVars, appVars,
                   extraVars>>

AppNext ==
    \/ ApplicationStart
    \/ ApplicationStop
    \/ \E t \in AlertTokens, s \in AlertSeverities : CreateAlert(t, "HIGH_SCORE", s)
    \/ \E t \in 0..(MaxAlerts + 1) : ConfirmAlert(AlertID(t))

(* the application as InitializeApplication returns it *)
InitializeApplication == PipelineInit /\ TrustIdle /\ MoreIdle

AppSpec == InitializeApplication /\ [][AppNext]_vars

(* ---- properties of the application ---- *)

(* C28: when Stop has returned, the components were stopped in the order API,
   alerting, pipeline, reactivation, wallet and token engines, memory of
   trust, cache, database, and the memory of trust was stopped *)
C28_ShutdownOrder ==
    appPc = "stopped" =>
        /\ stopLog = <<"api", "alerting", "pipeline", "reactivation", "wallet", "token",
                       "memoryOfTrust", "cache", "db">>
        /\ stopCh = "closed"

(* this step is a ConfirmAlert call *)
Confirming == alertResult'.n # alertResult.n /\ alertResult'.kind = "confirm"

(* C30: ConfirmAlert with an ID that CreateAlert returned adds one to the
   confirmation count of the alert CreateAlert returned with it and sets its
   flag, and leaves the other alerts, the other fields and the order of the
   list as they are; with an unknown ID it returns an error and changes
   nothing *)
C30_ConfirmChangesOneAlert ==
    [][Confirming =>
          LET known == {i \in 1..Len(alerts) : alerts[i].ID = alertResult'.id}
          IN  IF known = {}
              THEN alertResult'.error /\ alerts' = alerts
              ELSE /\ ~alertResult'.error
                   /\ Len(alerts') = Len(alerts)
                   /\ \A i \in 1..Len(alerts) :
                          IF i \in known
                          THEN /\ alerts'[i].ConfirmationCount = alerts[i].ConfirmationCount + 1
                               /\ alerts'[i].IsConfirmed
                               /\ [alerts'[i] EXCEPT !.ConfirmationCount = 0,
                                                     !.IsConfirmed = FALSE]
                                      = [alerts[i] EXCEPT !.ConfirmationCount = 0,
                                                          !.IsConfirmed = FALSE]
                          ELSE alerts'[i] = alerts[i]]_vars

-----------------------------------------------------------------------------
(* The two Redis clients of internal/storage/cache: Redis, which the pipeline
   holds, and Client, which the Memory of Trust holds. Both have XGroupCreate. *)

MaxGroupCalls == 3

BusyGroup == "BUSYGROUP Consumer Group name already exists"

GroupCalls == groupCreateResult.n

(* what an XGroupCreate call leaves in groupCreateResult *)
GroupCreateReturned(impl, stream, group, err) ==
    [kind |-> impl, n |-> GroupCalls + 1, stream |-> stream, group |-> group,
     existed |-> groups[<<stream, group>>].exists, err |-> err]

(* the frame of a direct XGroupCreate call *)
GroupCreateFrame ==
    /\ UNCHANGED <<processors, stopped, ctxDone, starts, startSnapshots, consumers, clock,
                   publishedOK, processCalls, acks, processErrors, engineVars>>
    /\ UNCHANGED <<trustVars, besideGroup>>

(* Redis.XGroupCreate(stream, group), redis.go lines 122-143: a BUSYGROUP
   answer is turned into nil *)
RedisXGroupCreate(stream, group) ==
    /\ GroupCalls < MaxGroupCalls
    /\ \/ /\ streams' = StreamsAfterGroupCreate(streams, stream)
          /\ groups' = GroupsAfterGroupCreate(groups, streams, stream, group)
          /\ groupCreateResult' = GroupCreateReturned("Redis", stream, group, "nil")
          /\ UNCHANGED faults
       \/ /\ faults < MaxFaults
          /\ faults' = faults + 1
          /\ groupCreateResult' = GroupCreateReturned("Redis", stream, group, "connection refused")
          /\ UNCHANGED <<streams, groups>>
    /\ GroupCreateFrame

(* Client.XGroupCreate(stream, group), client.go lines 437-466: a BUSYGROUP
   answer is returned as a new error with the text of BusyGroup *)
ClientXGroupCreate(stream, group) ==
    /\ GroupCalls < MaxGroupCalls
    /\ \/ /\ streams' = StreamsAfterGroupCreate(streams, stream)
          /\ groups' = GroupsAfterGroupCreate(groups, streams, stream, group)
          /\ groupCreateResult' = GroupCreateReturned("Client", stream, group,
                 IF groups[<<stream, group>>].exists THEN BusyGroup ELSE "nil")
          /\ UNCHANGED faults
       \/ /\ faults < MaxFaults
          /\ faults' = faults + 1
          /\ groupCreateResult' = GroupCreateReturned("Client", stream, group, "connection refused")
          /\ UNCHANGED <<streams, groups>>
    /\ GroupCreateFrame

GroupNext ==
    \/ \E s \in ProcessorNames, g \in ProcessorNames : RedisXGroupCreate(s, g)
    \/ \E s \in ProcessorNames, g \in ProcessorNames : ClientXGroupCreate(s, g)
    \/ \E p \in ProcessorNames : RegisterProcessor(p)
    \/ Start
    \/ Shutdown
    \/ \E c \in DOMAIN consumers : ConsumerCreateGroup(c)
    \/ \E c \in DOMAIN consumers : ConsumerRead(c)

GroupStart == PipelineInit /\ TrustIdle /\ MoreIdle

GroupSpec == GroupStart /\ [][GroupNext]_vars

(* this step is the return of an XGroupCreate call *)
GroupCreateReturns == groupCreateResult'.n # groupCreateResult.n

(* this step is consumer c leaving the creation of its group, which existed,
   without an error of the broker *)
StartsOnExistingGroup(c) ==
    /\ c \in DOMAIN consumers
    /\ consumers[c].pc = "start"
    /\ consumers'[c].pc # "start"
    /\ groups[<<StreamOf(c), GroupOf(c)>>].exists
    /\ faults' = faults

(* C31: XGroupCreate for a group that exists on the stream returns nil, and a
   consumer started on an existing group goes on to its read loop *)
C31_ExistingGroupIsSuccess ==
    [][/\ (GroupCreateReturns /\ groupCreateResult'.existed /\ faults' = faults)
              => groupCreateResult'.err = "nil"
       /\ \A c \in 1..Cardinality(ProcessorNames) :
              StartsOnExistingGroup(c) => consumers'[c].pc = "loop"]_vars

(* ---- further properties of the Memory of Trust ---- *)

(* this step is a PurgeWallet(w) that found the node of w: no other operation
   removes a wallet node *)
Purged(w) == Has(gWallets, w) /\ ~Has(gWallets', w)

(* C37: after PurgeWallet(w) the wallet has no node, is in no token node's
   wallets and has no cached trust score *)
C37_PurgeLeavesNothing ==
    [][\A w \in WalletAddrs :
          Purged(w) =>
              /\ \A t \in DOMAIN gTokens' : ~InList(gTokens'[t].wallets, w)
              /\ ~Has(cache', TrustKey(w))]_vars

(* ---- further properties of the reactivation system ---- *)

(* C39: ProcessReactivationCandidate never ends in a runtime fault *)
C39_NoRuntimeFault == scanPc # "panicked"

-----------------------------------------------------------------------------
(* The token processor: TokenProcessor.Process, which hands state changes and
   reactivations to the token engine. *)

MaxProcessCalls == 2

(* message.Payload as a Go map: the fields of a payload built by a caller, the
   decoded fields of a delivered record, no field for a nil payload *)
PayloadFields(message) ==
    IF "kind" \in DOMAIN message.Payload
    THEN IF message.Payload.kind = "map" THEN message.Payload.fields ELSE <<>>
    ELSE message.Payload

(* payload[key].(T): the field is there and holds a value of the kind *)
HasField(fields, key, kind) == key \in DOMAIN fields /\ fields[key].kind = kind

ReactivationPayload == MapVal([k \in {"token_address", "reactivation_score"} |->
                          IF k = "token_address" THEN Str("T1") ELSE FloatVal(70)])
PricePayload == MapVal([k \in {"token_address", "price_change"} |->
                    IF k = "token_address" THEN Str("T1") ELSE FloatVal(2)])

(* messages handed to Process by a direct caller *)
ProcessInputs ==
    EventInputs \cup
    { [ID |-> "m1", Type |-> "reactivation", Timestamp |-> CallerTime,
       Payload |-> ReactivationPayload],
      [ID |-> "m2", Type |-> "price_change", Timestamp |-> CallerTime,
       Payload |-> PricePayload],
      [ID |-> "m3", Type |-> "state_change", Timestamp |-> CallerTime,
       Payload |-> PricePayload] }

(* the state Process asks the engine for: none when the message is rejected or
   its type needs no call *)
NoState == "-"

RequestedState(message) ==
    LET fields == PayloadFields(message)
    IN  IF ~HasField(fields, "token_address", "string") THEN NoState
        ELSE CASE message.Type = "reactivation" ->
                      IF HasField(fields, "reactivation_score", "float64")
                      THEN "REACTIVATED" ELSE NoState
               [] message.Type = "state_change" ->
                      IF HasField(fields, "new_state", "string")
                      THEN fields["new_state"].text ELSE NoState
               [] OTHER -> NoState

(* the error Process returns without a call of the engine *)
Rejected(message) ==
    LET fields == PayloadFields(message)
    IN  IF ~HasField(fields, "token_address", "string") THEN TRUE
        ELSE CASE message.Type = "price_change" -> ~HasField(fields, "price_change", "float64")
               [] message.Type = "volume_spike" -> ~HasField(fields, "volume", "float64")
               [] message.Type = "reactivation" ->
                      ~HasField(fields, "reactivation_score", "float64")
               [] message.Type = "state_change" -> ~HasField(fields, "new_state", "string")
               [] OTHER -> FALSE

ProcessReturned(message, requested, err) ==
    [kind |-> "process", n |-> processResult.n + 1, type |-> message.Type,
     requested |-> requested, error |-> err]

ProcessFrame ==
    /\ UNCHANGED <<processors, stopped, ctxDone, starts, startSnapshots, consumers, groups,
                   processCalls, acks, processErrors>>
    /\ UNCHANGED <<trustVars, besideProcess>>

(* TokenProcessor.Process(message), with the UpdateTokenState call of
   processReactivation and processStateChange: the engine resolves the token
   and publishes a state_change event on token_events; the publish error is
   logged by the engine *)
TokenProcessorProcess(message) ==
    /\ processResult.n < MaxProcessCalls
    /\ LET new == RequestedState(message)
           addr == PayloadFields(message)["token_address"].text
       IN  IF new = NoState
           THEN /\ processResult' = ProcessReturned(message, new, Rejected(message))
                /\ UNCHANGED <<streams, clock, publishedOK, faults, engineVars>>
           ELSE /\ clock < MaxPublish
                /\ clock' = clock + 1
                /\ \/ /\ engineTokens' = engineTokens \cup {addr}
                      /\ \E sent \in BOOLEAN :
                            /\ ~sent => faults < MaxFaults
                            /\ faults' = IF sent THEN faults ELSE faults + 1
                            /\ LET msg == Accepted(StateChangeEvent(addr, new, Now(clock')),
                                                   Now(clock'))
                               IN  /\ streams' = IF sent
                                                 THEN XAdd(streams, "token_events",
                                                           StreamValues(msg))
                                                 ELSE streams
                                   /\ publishedOK' = IF sent
                                         THEN publishedOK \cup
                                                {[stream |-> "token_events",
                                                  id |-> BrokerID(Len(streams["token_events"]) + 1),
                                                  msg |-> msg]}
                                         ELSE publishedOK
                            /\ engineCalls' = engineCalls \cup
                                   {EngineCall("UpdateTokenState", addr, new, TRUE, sent,
                                               ResultAfterPublish(sent))}
                      /\ processResult' = ProcessReturned(message, new, FALSE)
                   \/ /\ addr \notin engineTokens
                      /\ faults < MaxFaults
                      /\ faults' = faults + 1
                      /\ engineCalls' = engineCalls \cup
                             {EngineCall("UpdateTokenState", addr, new, FALSE, FALSE, "error")}
                      /\ processResult' = ProcessReturned(message, new, TRUE)
                      /\ UNCHANGED <<streams, publishedOK, engineTokens>>
    /\ ProcessFrame

(* Process of the message a consumer decodes from record i of the stream *)
ProcessDelivered(stream, i) ==
    /\ i \in 1..Len(streams[stream])
    /\ TokenProcessorProcess(DecodeMessage(streams[stream][i].id, streams[stream][i].values,
                                           Now(clock)))

ProcessorNext ==
    \/ \E a \in EngineTokens, st \in LifecycleStates : UpdateTokenState(a, st)
    \/ \E m \in ProcessInputs : TokenProcessorProcess(m)
    \/ \E s \in PublishStreams, i \in 1..MaxPublish : ProcessDelivered(s, i)
    \/ \E s \in PublishStreams, m \in EventInputs : CallerPublishes(s, m)

ProcessorStart == PipelineInit /\ TrustIdle /\ MoreIdle

ProcessorSpec == ProcessorStart /\ [][ProcessorNext]_vars

(* this step is the return of a Process call for an event of the type *)
Handled(type) == processResult'.n # processResult.n /\ processResult'.type = type

(* the state_change events this step published *)
NewStateChanges == {e \in publishedOK' \ publishedOK : e.msg.Type = "state_change"}

(* C40: handling a state_change or a reactivation event in TokenProcessor
   publishes no state_change event *)
C40_HandlingPublishesNothing ==
    [][(Handled("state_change") \/ Handled("reactivation")) => NewStateChanges = {}]_vars

-----------------------------------------------------------------------------
(* The active wallets of a token: TrustNetwork.GetTokenActiveWallets over the
   cache and the queries of the database. *)

MaxActiveCalls == 3

(* the wallets with interactions on the token T1, most recent activity first,
   with their rows of wallet_trust_scores *)
ActiveRows ==
    <<[Address |-> "A40", TrustScore |-> 40], [Address |-> "A80", TrustScore |-> 80],
      [Address |-> "A65", TrustScore |-> 65]>>

MinScoreInputs == {0, 50, 70}
LimitInputs == {0, 1, 2, 50}

(* "LIMIT n" of a query, and s[:n] of a slice longer than n *)
FirstRows(s, n) == SubSeq(s, 1, Min(Len(s), n))

(* the sequence sorted by trust score, highest first *)
ByTrustScore(s) ==
    CHOOSE t \in [1..Len(s) -> {s[i] : i \in 1..Len(s)}] :
        /\ \A i \in 1..Len(s) : \E j \in 1..Len(s) : t[j] = s[i]
        /\ \A i, j \in 1..Len(s) : i < j => t[i].TrustScore >= t[j].TrustScore

AtLeast(s, minTrustScore) ==
    LET keep(r) == r.TrustScore >= minTrustScore
    IN  SelectSeq(s, keep)

(* GetActiveWalletsByTrustScore: WHERE trust_score >= $2 ORDER BY trust_score
   DESC LIMIT $3 *)
GetActiveWalletsByTrustScore(minTrustScore, limit) ==
    FirstRows(ByTrustScore(AtLeast(ActiveRows, minTrustScore)), limit)

(* GetActiveWalletsPaginated(token, 0, limit): ORDER BY last_activity DESC
   LIMIT $2 *)
GetActiveWalletsPaginated(limit) == FirstRows(ActiveRows, limit)

(* GetAllTokenActiveWallets(token, 1000) *)
GetAllTokenActiveWallets == FirstRows(ActiveRows, 1000)

(* lines 1691-1701: the query GetTokenActiveWallets sends *)
QueriedWallets(minTrustScore, limit) ==
    IF minTrustScore > 0 THEN GetActiveWalletsByTrustScore(minTrustScore, limit)
    ELSE IF limit > 0 THEN GetActiveWalletsPaginated(limit)
    ELSE GetAllTokenActiveWallets

(* "if limit > 0 && len(activeWallets) > limit { return activeWallets[:limit] }" *)
Limited(wallets, limit) == IF limit > 0 /\ Len(wallets) > limit THEN FirstRows(wallets, limit)
                           ELSE wallets

(* "token:%s:active_wallets:trust_score:%f" *)
ActiveKey(tokenAddress, minTrustScore) ==
    "token:" \o tokenAddress \o ":active_wallets:trust_score:" \o ToString(minTrustScore)
        \o ".000000"

ActiveReturned(tokenAddress, minTrustScore, limit, wallets, from, err) ==
    [kind |-> "active", n |-> activeResult.n + 1, token |-> tokenAddress,
     minTrustScore |-> minTrustScore, limit |-> limit, wallets |-> wallets, from |-> from,
     error |-> err]

ActiveFrame ==
    /\ UNCHANGED <<gWallets, gTokens, dbInteractions, dbScores, dbSimilarities,
                   pendingUpdates, recordedOK, lastRecorded, historyResult, scoreResult,
                   recordResult, similarResult, stopCh, stopResult, started, trustOps>>
    /\ UNCHANGED <<pipeVars, besideActive>>

(* GetTokenActiveWallets(tokenAddress, minTrustScore, limit): a cached list
   that is not empty is cut to the limit and returned; otherwise the database
   is queried, what it gave is cached under the key of the token and the
   minimum score, and returned cut to the limit *)
GetTokenActiveWallets(tokenAddress, minTrustScore, limit) ==
    /\ activeResult.n < MaxActiveCalls
    /\ LET key == ActiveKey(tokenAddress, minTrustScore)
       IN  \/ /\ Has(cache, key) /\ Len(cache[key]) > 0
              /\ activeResult' = ActiveReturned(tokenAddress, minTrustScore, limit,
                                                Limited(cache[key], limit), "cache", FALSE)
              /\ UNCHANGED <<cache, dbFaults>>
           \/ /\ ~(Has(cache, key) /\ Len(cache[key]) > 0)
              /\ LET wallets == QueriedWallets(minTrustScore, limit)
                 IN  /\ cache' = Put(cache, key, wallets)
                     /\ activeResult' = ActiveReturned(tokenAddress, minTrustScore, limit,
                                                       Limited(wallets, limit), "db", FALSE)
              /\ UNCHANGED dbFaults
           \/ /\ ~(Has(cache, key) /\ Len(cache[key]) > 0)
              /\ dbFaults < MaxDBFaults
              /\ dbFaults' = dbFaults + 1
              /\ activeResult' = ActiveReturned(tokenAddress, minTrustScore, limit, <<>>,
                                                "db", TRUE)
              /\ UNCHANGED cache
    /\ ActiveFrame

(* the 30 minutes of a cached list are over *)
ActiveListExpires(tokenAddress, minTrustScore) ==
    /\ Has(cache, ActiveKey(tokenAddress, minTrustScore))
    /\ cache' = Drop(cache, ActiveKey(tokenAddress, minTrustScore))
    /\ UNCHANGED <<activeResult, dbFaults>>
    /\ ActiveFrame

ActiveNext ==
    \/ \E m \in MinScoreInputs, l \in LimitInputs : GetTokenActiveWallets("T1", m, l)
    \/ \E m \in MinScoreInputs : ActiveListExpires("T1", m)

ActiveStart == PipelineInit /\ TrustIdle /\ MoreIdle

ActiveSpec == ActiveStart /\ [][ActiveNext]_vars

(* the active wallets of the token with a trust score of at least
   minTrustScore, in the order of the query, up to limit (all for limit 0) *)
WalletsUpTo(minTrustScore, limit) ==
    LET all == IF minTrustScore > 0 THEN ByTrustScore(AtLeast(ActiveRows, minTrustScore))
               ELSE ActiveRows
    IN  IF limit > 0 THEN FirstRows(all, limit) ELSE all

(* C38: GetTokenActiveWallets(t, minScore, limit) with a limit above 0
   returns the active wallets of t with a trust score of at least minScore,
   up to limit, whatever the earlier calls were *)
C38_IndependentOfEarlierCalls ==
    (activeResult.kind = "active" /\ ~activeResult.error /\ activeResult.limit > 0)
        => activeResult.wallets = WalletsUpTo(activeResult.minTrustScore, activeResult.limit)

-----------------------------------------------------------------------------
(* The maps of the token engine under its goroutines: the price monitor runs
   checkPriceMovements, HTTP handlers and event processors call GetToken.
   Engine has no mutex: a map access is a step that begins and a step that
   ends, and a range over a map lasts from its first key to its last. *)

MaxEngineOps == 3

Callers == {"http", "processor"}

Read(map) == [map |-> map, write |-> FALSE]
Write(map) == [map |-> map, write |-> TRUE]

At(g, pc) == goroutines[g].pc = pc

RaceFrame ==
    /\ UNCHANGED <<processors, stopped, ctxDone, starts, startSnapshots, consumers, groups,
                   processCalls, acks, processErrors, engineCalls>>
    /\ UNCHANGED <<trustVars, ticks, tickResult, scoreVars, reactVars, appVars, alertVars,
                   exceptRace>>

(* GetToken, line 64: "if token, ok := e.tokens[tokenAddress]; ok" begins *)
GetTokenLooksUp(g, addr) ==
    /\ At(g, "idle")
    /\ engineOps < MaxEngineOps
    /\ engineOps' = engineOps + 1
    /\ goroutines' = [goroutines EXCEPT ![g] =
           [pc |-> "lookup", addr |-> addr, todo |-> <<>>, access |-> {Read("tokens")}]]
    /\ UNCHANGED <<streams, clock, publishedOK, faults, engineTokens, metrics>>
    /\ RaceFrame

(* GetToken, lines 64-69: the lookup ends; a cached token is returned,
   otherwise GetTokenInfo is called *)
GetTokenLookedUp(g) ==
    /\ At(g, "lookup")
    /\ goroutines' = [goroutines EXCEPT ![g].access = {},
                                        ![g].pc = IF goroutines[g].addr \in engineTokens
                                                  THEN "idle" ELSE "fetch"]
    /\ UNCHANGED <<streams, clock, publishedOK, faults, engineTokens, metrics, engineOps>>
    /\ RaceFrame

(* GetToken, lines 69-89: GetTokenInfo fails and the error is returned, or it
   answers and "e.tokens[tokenAddress] = token" begins *)
GetTokenFetched(g) ==
    /\ At(g, "fetch")
    /\ \/ /\ goroutines' = [goroutines EXCEPT ![g].pc = "store",
                                              ![g].access = {Write("tokens")}]
          /\ UNCHANGED faults
       \/ /\ faults < MaxFaults
          /\ faults' = faults + 1
          /\ goroutines' = [goroutines EXCEPT ![g].pc = "idle"]
    /\ UNCHANGED <<streams, clock, publishedOK, engineTokens, metrics, engineOps>>
    /\ RaceFrame

(* GetToken, lines 89-91: the write ends and the token is returned *)
GetTokenStored(g) ==
    /\ At(g, "store")
    /\ engineTokens' = engineTokens \cup {goroutines[g].addr}
    /\ goroutines' = [goroutines EXCEPT ![g].pc = "idle", ![g].access = {}]
    /\ UNCHANGED <<streams, clock, publishedOK, faults, metrics, engineOps>>
    /\ RaceFrame

(* checkPriceMovements, line 327: "for addr, token := range e.tokens" begins,
   in the order the map gives the keys *)
RangeBegins ==
    /\ At("monitor", "idle")
    /\ engineOps < MaxEngineOps
    /\ engineOps' = engineOps + 1
    /\ \E order \in WalletOrders(engineTokens) :
          goroutines' = [goroutines EXCEPT !["monitor"] =
              [pc |-> "range", addr |-> "", todo |-> order, access |-> {Read("tokens")}]]
    /\ UNCHANGED <<streams, clock, publishedOK, faults, engineTokens, metrics>>
    /\ RaceFrame

(* lines 329-338: GetTokenMetrics fails and the token is skipped, or it
   answers and "e.metrics[addr]" is read; the range ends after the last key *)
RangeNext ==
    /\ At("monitor", "range")
    /\ IF goroutines["monitor"].todo = <<>>
       THEN goroutines' = [goroutines EXCEPT !["monitor"].pc = "idle",
                                             !["monitor"].access = {}]
       ELSE \/ goroutines' = [goroutines EXCEPT !["monitor"].todo = Tail(@)]
            \/ goroutines' = [goroutines EXCEPT
                   !["monitor"].pc = "metrics",
                   !["monitor"].addr = Head(goroutines["monitor"].todo),
                   !["monitor"].access = @ \cup {Read("metrics")}]
    /\ UNCHANGED <<streams, clock, publishedOK, faults, engineTokens, metrics, engineOps>>
    /\ RaceFrame

(* lines 338-357: "e.metrics[addr] = currentMetrics" begins *)
MetricsWriteBegins ==
    /\ At("monitor", "metrics")
    /\ goroutines' = [goroutines EXCEPT !["monitor"].pc = "write",
                                        !["monitor"].access =
                                            (@ \ {Read("metrics")}) \cup {Write("metrics")}]
    /\ UNCHANGED <<streams, clock, publishedOK, faults, engineTokens, metrics, engineOps>>
    /\ RaceFrame

(* lines 340-368: the write ends; with an earlier snapshot the events of the
   token are published; the loop goes on with the next key *)
MetricsWritten ==
    /\ At("monitor", "write")
    /\ \E cur \in MetricInputs :
          LET addr == goroutines["monitor"].addr
              types == EventTypesOf(metrics, addr, cur)
          IN  \E lost \in SUBSET ({addr} \X types) :
                 /\ Cardinality(lost) <= MaxFaults - faults
                 /\ faults' = faults + Cardinality(lost)
                 /\ LET after == CheckFrom(<<addr>>, 1, metrics, Broker,
                                           [a \in {addr} |-> cur], lost)
                    IN  /\ metrics' = after.metrics
                        /\ streams' = after.broker.streams
                        /\ clock' = after.broker.clock
                        /\ publishedOK' = after.broker.publishedOK
    /\ goroutines' = [goroutines EXCEPT !["monitor"].pc = "range",
                                        !["monitor"].todo = Tail(@),
                                        !["monitor"].access = @ \ {Write("metrics")}]
    /\ UNCHANGED <<engineTokens, engineOps>>
    /\ RaceFrame

RaceNext ==
    \/ \E g \in Callers, a \in MonitoredTokens : GetTokenLooksUp(g, a)
    \/ \E g \in Callers : GetTokenLookedUp(g)
    \/ \E g \in Callers : GetTokenFetched(g)
    \/ \E g \in Callers : GetTokenStored(g)
    \/ RangeBegins
    \/ RangeNext
    \/ MetricsWriteBegins
    \/ MetricsWritten

RaceStart == PipelineInit /\ TrustIdle /\ MoreIdle

RaceSpec == RaceStart /\ [][RaceNext]_vars

(* two goroutines are in the same map and one of them writes *)
Conflict(g, h) ==
    \E a \in goroutines[g].access, b \in goroutines[h].access :
        a.map = b.map /\ (a.write \/ b.write)

(* C34: no two goroutines are in the tokens map or in the metrics map at the
   same time when one of them writes *)
C34_MapAccessesExclusive ==
    \A g, h \in DOMAIN goroutines : g # h => ~Conflict(g, h)

-----------------------------------------------------------------------------
(* The Memory of Trust under concurrent calls: one wallet, its node, its cache
   key and its row of wallet_trust_scores, and the goroutines that run
   GetWalletTrustScore, updateWalletTrustScore, RecordWalletInteraction and
   RebuildTrustGraph step by step. A section under RLock only reads memory
   and is one step; the write lock is held from a step to a later one. *)

MaxLockOps == 3

NoScore == 0 - 1
Goroutines == {"g1", "g2"}

(* what calculateWalletTrustScore gives, from the rows of the database it
   reads before the lock is taken *)
ComputedScores == {Points(50), Points(80)}

IdleThread == [op |-> "", pc |-> "idle", score |-> NoScore, inline |-> FALSE]

Running(t, op, pc) == threads[t].op = op /\ threads[t].pc = pc

(* a database or cache call of goroutine t inside op *)
Calls(t, op, call) == ioLog' = ioLog \cup {[op |-> op, call |-> call, locked |-> mutex = t]}

LockFrame == UNCHANGED <<pipeVars, trustVars, besideLock>>

Begins(t, op, pc) ==
    /\ threads[t].pc = "idle"
    /\ lockOps < MaxLockOps
    /\ lockOps' = lockOps + 1
    /\ threads' = [threads EXCEPT ![t] = [op |-> op, pc |-> pc, score |-> NoScore,
                                           inline |-> FALSE]]

(* ---- GetWalletTrustScore ---- *)

(* lines 1278-1285: the call begins with cache.GetFloat64; a cached score is
   returned *)
GetReadsCache(t) ==
    /\ Begins(t, "GetWalletTrustScore",
              IF cachedScore # NoScore THEN "idle" ELSE "graph")
    /\ Calls(t, "GetWalletTrustScore", "cache.GetFloat64")
    /\ UNCHANGED <<mutex, nodeScore, cachedScore, storedScore, hasRows, spawned>>
    /\ LockFrame

(* lines 1288-1298: under RLock the node is looked up and its score is copied *)
GetReadsGraph(t) ==
    /\ Running(t, "GetWalletTrustScore", "graph")
    /\ mutex = "free"
    /\ threads' = [threads EXCEPT ![t].score = nodeScore,
                                  ![t].pc = IF nodeScore # NoScore THEN "cache" ELSE "db"]
    /\ UNCHANGED <<mutex, nodeScore, cachedScore, storedScore, hasRows, spawned, ioLog, lockOps>>
    /\ LockFrame

(* lines 1293-1296 and 1331-1334: cache.SetFloat64 of the copied score, after
   the lock was released, and the return *)
GetCachesScore(t) ==
    /\ Running(t, "GetWalletTrustScore", "cache")
    /\ cachedScore' = threads[t].score
    /\ Calls(t, "GetWalletTrustScore", "cache.SetFloat64")
    /\ threads' = [threads EXCEPT ![t] = IdleThread]
    /\ UNCHANGED <<mutex, nodeScore, storedScore, hasRows, spawned, lockOps>>
    /\ LockFrame

(* lines 1300-1303: db.GetWalletTrustScore; without a row the score is
   computed by updateWalletTrustScore, called in this goroutine *)
GetReadsDB(t) ==
    /\ Running(t, "GetWalletTrustScore", "db")
    /\ Calls(t, "GetWalletTrustScore", "db.GetWalletTrustScore")
    /\ threads' = [threads EXCEPT ![t] =
           IF storedScore # NoScore
           THEN [op |-> "GetWalletTrustScore", pc |-> "lock", score |-> storedScore,
                 inline |-> FALSE]
           ELSE [op |-> "updateWalletTrustScore", pc |-> "calculate", score |-> NoScore,
                 inline |-> TRUE]]
    /\ UNCHANGED <<mutex, nodeScore, cachedScore, storedScore, hasRows, spawned, lockOps>>
    /\ LockFrame

(* lines 1305-1315: after the inline update the node is read under RLock and
   the call returns its score, or 50 *)
GetReadsGraphAgain(t) ==
    /\ Running(t, "GetWalletTrustScore", "again")
    /\ mutex = "free"
    /\ threads' = [threads EXCEPT ![t] = IdleThread]
    /\ UNCHANGED <<mutex, nodeScore, cachedScore, storedScore, hasRows, spawned, ioLog, lockOps>>
    /\ LockFrame

(* line 1319: m.mutex.Lock() *)
GetLocks(t) ==
    /\ Running(t, "GetWalletTrustScore", "lock")
    /\ mutex = "free"
    /\ mutex' = t
    /\ threads' = [threads EXCEPT ![t].pc = "locked"]
    /\ UNCHANGED <<nodeScore, cachedScore, storedScore, hasRows, spawned, ioLog, lockOps>>
    /\ LockFrame

(* lines 1320-1331: the node gets the score of the row; Unlock *)
GetWritesGraph(t) ==
    /\ Running(t, "GetWalletTrustScore", "locked")
    /\ nodeScore' = threads[t].score
    /\ mutex' = "free"
    /\ threads' = [threads EXCEPT ![t].pc = "cache"]
    /\ UNCHANGED <<cachedScore, storedScore, hasRows, spawned, ioLog, lockOps>>
    /\ LockFrame

(* ---- updateWalletTrustScore ---- *)

(* a goroutine spawned by RecordWalletInteraction begins *)
UpdateBegins(t) ==
    /\ spawned > 0
    /\ spawned' = spawned - 1
    /\ threads[t].pc = "idle"
    /\ threads' = [threads EXCEPT ![t] = [op |-> "updateWalletTrustScore",
                                           pc |-> "calculate", score |-> NoScore,
                                           inline |-> FALSE]]
    /\ UNCHANGED <<mutex, nodeScore, cachedScore, storedScore, hasRows, ioLog, lockOps>>
    /\ LockFrame

(* line 1440: calculateWalletTrustScore, which reads the database; without
   rows of the wallet it gives 50 *)
UpdateCalculates(t) ==
    /\ Running(t, "updateWalletTrustScore", "calculate")
    /\ Calls(t, "updateWalletTrustScore", "db.GetWalletInteractions")
    /\ \E new \in IF hasRows THEN ComputedScores ELSE {DefaultTrustScore} :
          threads' = [threads EXCEPT ![t].score = new, ![t].pc = "lock"]
    /\ UNCHANGED <<mutex, nodeScore, cachedScore, storedScore, hasRows, spawned, lockOps>>
    /\ LockFrame

(* line 1443: m.mutex.Lock() *)
UpdateLocks(t) ==
    /\ Running(t, "updateWalletTrustScore", "lock")
    /\ mutex = "free"
    /\ mutex' = t
    /\ threads' = [threads EXCEPT ![t].pc = "locked"]
    /\ UNCHANGED <<nodeScore, cachedScore, storedScore, hasRows, spawned, ioLog, lockOps>>
    /\ LockFrame

(* where updateWalletTrustScore returns to *)
Returned(t) ==
    IF threads[t].inline
    THEN [op |-> "GetWalletTrustScore", pc |-> "again", score |-> NoScore, inline |-> FALSE]
    ELSE IdleThread

(* lines 1444-1462: the node is written when it is new or when the score moved
   by more than 5 points; otherwise Unlock and return *)
UpdateWritesGraph(t) ==
    /\ Running(t, "updateWalletTrustScore", "locked")
    /\ IF nodeScore = NoScore \/ Abs(nodeScore - threads[t].score) > SignificantChange
       THEN /\ nodeScore' = threads[t].score
            /\ threads' = [threads EXCEPT ![t].pc = "save"]
            /\ UNCHANGED mutex
       ELSE /\ mutex' = "free"
            /\ threads' = [threads EXCEPT ![t] = Returned(t)]
            /\ UNCHANGED nodeScore
    /\ UNCHANGED <<cachedScore, storedScore, hasRows, spawned, ioLog, lockOps>>
    /\ LockFrame

(* lines 1450 and 1465: db.SaveWalletTrustScore; its error is dropped *)
UpdateSaves(t) ==
    /\ Running(t, "updateWalletTrustScore", "save")
    /\ Calls(t, "updateWalletTrustScore", "db.SaveWalletTrustScore")
    /\ storedScore' \in {threads[t].score, storedScore}
    /\ threads' = [threads EXCEPT ![t].pc = "cache"]
    /\ UNCHANGED <<mutex, nodeScore, cachedScore, hasRows, spawned, lockOps>>
    /\ LockFrame

(* lines 1453-1454 and 1468-1471: cache.SetFloat64; Unlock *)
UpdateCaches(t) ==
    /\ Running(t, "updateWalletTrustScore", "cache")
    /\ Calls(t, "updateWalletTrustScore", "cache.SetFloat64")
    /\ cachedScore' = threads[t].score
    /\ mutex' = "free"
    /\ threads' = [threads EXCEPT ![t] = Returned(t)]
    /\ UNCHANGED <<nodeScore, storedScore, hasRows, spawned, lockOps>>
    /\ LockFrame

(* ---- RecordWalletInteraction ---- *)

(* lines 1208-1216: db.SaveWalletInteraction, before the lock *)
RecordSaves(t) ==
    /\ Begins(t, "RecordWalletInteraction", "lock")
    /\ Calls(t, "RecordWalletInteraction", "db.SaveWalletInteraction")
    /\ hasRows' = TRUE
    /\ UNCHANGED <<mutex, nodeScore, cachedScore, storedScore, spawned>>
    /\ LockFrame

(* line 1219: m.mutex.Lock() *)
RecordLocks(t) ==
    /\ Running(t, "RecordWalletInteraction", "lock")
    /\ mutex = "free"
    /\ mutex' = t
    /\ threads' = [threads EXCEPT ![t].pc = "locked"]
    /\ UNCHANGED <<nodeScore, cachedScore, storedScore, hasRows, spawned, ioLog, lockOps>>
    /\ LockFrame

(* lines 1222-1275: a wallet without a node gets one with the score
   db.GetWalletTrustScore gives, or 50; the relations are added; the update
   goroutine is spawned; the deferred Unlock *)
RecordWritesGraph(t) ==
    /\ Running(t, "RecordWalletInteraction", "locked")
    /\ IF nodeScore = NoScore
       THEN /\ Calls(t, "RecordWalletInteraction", "db.GetWalletTrustScore")
            /\ nodeScore' = IF storedScore # NoScore THEN storedScore ELSE DefaultTrustScore
       ELSE UNCHANGED <<nodeScore, ioLog>>
    /\ spawned' = spawned + 1
    /\ mutex' = "free"
    /\ threads' = [threads EXCEPT ![t] = IdleThread]
    /\ UNCHANGED <<cachedScore, storedScore, hasRows, lockOps>>
    /\ LockFrame

(* ---- RebuildTrustGraph ---- *)

(* lines 343-350 and 1184-1203: saveTrustGraph, under RLock: the score of the
   nodeScore is saved *)
RebuildSaves(t) ==
    /\ Begins(t, "RebuildTrustGraph", "lock")
    /\ mutex = "free"
    /\ IF nodeScore # NoScore
       THEN /\ Calls(t, "saveTrustGraph", "db.SaveWalletTrustScore")
            /\ storedScore' \in {nodeScore, storedScore}
       ELSE UNCHANGED <<storedScore, ioLog>>
    /\ UNCHANGED <<mutex, nodeScore, cachedScore, hasRows, spawned>>
    /\ LockFrame

(* lines 1093-1094: loadTrustGraph: m.mutex.Lock() *)
LoadLocks(t) ==
    /\ Running(t, "RebuildTrustGraph", "lock")
    /\ mutex = "free"
    /\ mutex' = t
    /\ threads' = [threads EXCEPT ![t].pc = "scores"]
    /\ UNCHANGED <<nodeScore, cachedScore, storedScore, hasRows, spawned, ioLog, lockOps>>
    /\ LockFrame

(* lines 1098-1112: db.GetAllWalletTrustScores; a wallet with a row gets a new
   nodeScore with the score of the row *)
LoadReadsScores(t) ==
    /\ Running(t, "RebuildTrustGraph", "scores")
    /\ Calls(t, "loadTrustGraph", "db.GetAllWalletTrustScores")
    /\ nodeScore' = IF storedScore # NoScore THEN storedScore ELSE nodeScore
    /\ threads' = [threads EXCEPT ![t].pc = "recent"]
    /\ UNCHANGED <<mutex, cachedScore, storedScore, hasRows, spawned, lockOps>>
    /\ LockFrame

(* lines 1114-1182: db.GetRecentInteractions; a wallet of an interaction that
   has no node gets one with the score 50 (db.GetWalletTrustScore gave no
   row); the deferred Unlock *)
LoadReadsRecent(t) ==
    /\ Running(t, "RebuildTrustGraph", "recent")
    /\ Calls(t, "loadTrustGraph", "db.GetRecentInteractions")
    /\ nodeScore' = IF hasRows /\ nodeScore = NoScore THEN DefaultTrustScore ELSE nodeScore
    /\ mutex' = "free"
    /\ threads' = [threads EXCEPT ![t] = IdleThread]
    /\ UNCHANGED <<cachedScore, storedScore, hasRows, spawned, lockOps>>
    /\ LockFrame

LockNext ==
    \/ \E t \in Goroutines : GetReadsCache(t)
    \/ \E t \in Goroutines : GetReadsGraph(t)
    \/ \E t \in Goroutines : GetCachesScore(t)
    \/ \E t \in Goroutines : GetReadsDB(t)
    \/ \E t \in Goroutines : GetReadsGraphAgain(t)
    \/ \E t \in Goroutines : GetLocks(t)
    \/ \E t \in Goroutines : GetWritesGraph(t)
    \/ \E t \in Goroutines : UpdateBegins(t)
    \/ \E t \in Goroutines : UpdateCalculates(t)
    \/ \E t \in Goroutines : UpdateLocks(t)
    \/ \E t \in Goroutines : UpdateWritesGraph(t)
    \/ \E t \in Goroutines : UpdateSaves(t)
    \/ \E t \in Goroutines : UpdateCaches(t)
    \/ \E t \in Goroutines : RecordSaves(t)
    \/ \E t \in Goroutines : RecordLocks(t)
    \/ \E t \in Goroutines : RecordWritesGraph(t)
    \/ \E t \in Goroutines : RebuildSaves(t)
    \/ \E t \in Goroutines : LoadLocks(t)
    \/ \E t \in Goroutines : LoadReadsScores(t)
    \/ \E t \in Goroutines : LoadReadsRecent(t)

LockStart == PipelineInit /\ TrustIdle /\ MoreIdle

LockSpec == LockStart /\ [][LockNext]_vars

(* C33: no database or cache call is made by a goroutine that holds the write
   lock of the TrustGraph *)
C33_NoCallUnderWriteLock == \A c \in ioLog : ~c.locked

(* no call is running and no spawned update is waiting *)
Quiet == spawned = 0 /\ \A t \in Goroutines : threads[t].pc = "idle"

(* C35: once no trust-score operation is in flight, the cached score of a
   wallet that is in the graph is the score of its node *)
C35_CacheAgreesWithGraph ==
    (Quiet /\ nodeScore # NoScore /\ cachedScore # NoScore) => cachedScore = nodeScore

-----------------------------------------------------------------------------
(* The LastUpdated stamps of the graph: one wallet node, one token node and
   the row of wallet_trust_scores of the wallet, under the operations that
   write them. time.Now() has nanoseconds; a TIMESTAMP WITH TIME ZONE column
   keeps microseconds. *)

MaxStampOps == 4

NoStamp == 0 - 1
Microsecond == 1000

(* the readings time.Now() can give after the reading t *)
NowAfter(t) == {t + 1, t + Microsecond}

(* what the driver stores of a time.Time in a timestamptz column *)
Timestamptz(t) == (t \div Microsecond) * Microsecond

StampStep ==
    /\ stampOps < MaxStampOps
    /\ stampOps' = stampOps + 1

StampFrame ==
    /\ UNCHANGED <<gWallets, gTokens, dbInteractions, dbScores, dbSimilarities, cache,
                   pendingUpdates, recordedOK, lastRecorded, historyResult, scoreResult,
                   recordResult, similarResult, stopCh, stopResult, started, trustOps>>
    /\ UNCHANGED <<pipeVars, besideStamp>>

(* SaveWalletTrustScore(addr, score, lastUpdated): the row after the call, or
   the row as it was when the call fails *)
RowAfterSave(lastUpdated, ok) == IF ok THEN Timestamptz(lastUpdated) ELSE rowUpdated

(* RecordWalletInteraction: the interaction is saved; a wallet and a token
   without a node get one stamped time.Now(); the update is spawned *)
StampRecord ==
    /\ StampStep
    /\ interacted' = TRUE
    /\ \E n1 \in NowAfter(wallClock) : \E n2 \in NowAfter(n1) :
          /\ walletUpdated' = IF walletUpdated = NoStamp THEN n1 ELSE walletUpdated
          /\ tokenUpdated' = IF tokenUpdated = NoStamp THEN n2 ELSE tokenUpdated
          /\ wallClock' = n2
    /\ updatesSpawned' = updatesSpawned + 1
    /\ UNCHANGED <<rowUpdated, dbFaults>>
    /\ StampFrame

(* updateWalletTrustScore, lines 1443-1472: a node whose score moved by more
   than 5 points is stamped time.Now() and saved with that stamp; a wallet
   without a node gets one stamped time.Now() and is saved with a later
   reading; the error of the save is dropped *)
StampedByUpdate(significant, ok) ==
    \E n1 \in NowAfter(wallClock) : \E n2 \in NowAfter(n1) :
        IF walletUpdated = NoStamp
        THEN /\ walletUpdated' = n1
             /\ rowUpdated' = RowAfterSave(n2, ok)
             /\ wallClock' = n2
        ELSE IF significant
             THEN /\ walletUpdated' = n1
                  /\ rowUpdated' = RowAfterSave(n1, ok)
                  /\ wallClock' = n1
             ELSE UNCHANGED <<walletUpdated, rowUpdated, wallClock>>

(* the spawned updateWalletTrustScore runs *)
StampUpdate ==
    /\ updatesSpawned > 0
    /\ updatesSpawned' = updatesSpawned - 1
    /\ \E significant \in BOOLEAN, ok \in BOOLEAN :
          /\ ~ok => dbFaults < MaxDBFaults
          /\ dbFaults' = IF ok THEN dbFaults ELSE dbFaults + 1
          /\ StampedByUpdate(significant, ok)
    /\ UNCHANGED <<tokenUpdated, interacted, stampOps>>
    /\ StampFrame

(* GetWalletTrustScore for a wallet without a node and without a cached
   score, lines 1300-1331: with a row the node is created and stamped
   time.Now(); without a row updateWalletTrustScore runs in the call *)
StampGet ==
    /\ StampStep
    /\ walletUpdated = NoStamp
    /\ IF rowUpdated # NoStamp
       THEN /\ \E n \in NowAfter(wallClock) : walletUpdated' = n /\ wallClock' = n
            /\ UNCHANGED <<rowUpdated, dbFaults>>
       ELSE \E ok \in BOOLEAN :
               /\ ~ok => dbFaults < MaxDBFaults
               /\ dbFaults' = IF ok THEN dbFaults ELSE dbFaults + 1
               /\ StampedByUpdate(FALSE, ok)
    /\ UNCHANGED <<tokenUpdated, interacted, updatesSpawned>>
    /\ StampFrame

(* ResetTokenTrustMetrics, lines 571-589: an existing token node is stamped *)
StampReset ==
    /\ StampStep
    /\ \E n \in NowAfter(wallClock) :
          /\ tokenUpdated' = IF tokenUpdated = NoStamp THEN NoStamp ELSE n
          /\ wallClock' = IF tokenUpdated = NoStamp THEN wallClock ELSE n
    /\ UNCHANGED <<walletUpdated, rowUpdated, interacted, updatesSpawned, dbFaults>>
    /\ StampFrame

(* PurgeWallet: the node of the wallet is deleted; its rows stay *)
StampPurge ==
    /\ StampStep
    /\ walletUpdated # NoStamp
    /\ walletUpdated' = NoStamp
    /\ UNCHANGED <<tokenUpdated, rowUpdated, wallClock, interacted, updatesSpawned, dbFaults>>
    /\ StampFrame

(* loadTrustGraph, lines 1098-1182, on the row the save left: a wallet with a
   row gets a new node with the stamp of the row; a wallet and a token of a
   recent interaction without a node get one stamped time.Now() *)
StampedByLoad(row) ==
    \E n1 \in NowAfter(wallClock) : \E n2 \in NowAfter(n1) :
        LET loaded == IF row # NoStamp THEN row ELSE walletUpdated
        IN  /\ walletUpdated' = IF interacted /\ loaded = NoStamp THEN n1 ELSE loaded
            /\ tokenUpdated' = IF interacted /\ tokenUpdated = NoStamp THEN n2
                               ELSE tokenUpdated
            /\ wallClock' = n2

(* RebuildTrustGraph, lines 343-359: saveTrustGraph saves the node with its
   stamp, a failed save is logged; then loadTrustGraph, which returns at the
   first query that fails *)
StampRebuild ==
    /\ StampStep
    /\ \E saved \in BOOLEAN, loadedOK \in BOOLEAN :
          /\ dbFaults + (IF saved THEN 0 ELSE 1) + (IF loadedOK THEN 0 ELSE 1) <= MaxDBFaults
          /\ dbFaults' = dbFaults + (IF saved THEN 0 ELSE 1) + (IF loadedOK THEN 0 ELSE 1)
          /\ rowUpdated' = IF walletUpdated # NoStamp /\ saved THEN Timestamptz(walletUpdated)
                           ELSE rowUpdated
          /\ IF loadedOK THEN StampedByLoad(rowUpdated')
             ELSE UNCHANGED <<walletUpdated, tokenUpdated, wallClock>>
    /\ UNCHANGED <<interacted, updatesSpawned>>
    /\ StampFrame

StampNext ==
    \/ StampRecord
    \/ StampUpdate
    \/ StampGet
    \/ StampReset
    \/ StampPurge
    \/ StampRebuild

StampStart == PipelineInit /\ TrustIdle /\ MoreIdle

StampSpec == StampStart /\ [][StampNext]_vars

(* the stamp of a node that is there before and after the step *)
StillThere(before, after) == before # NoStamp /\ after # NoStamp

(* C32: LastUpdated of the wallet node and of the token node never decreases,
   RebuildTrustGraph included *)
C32_LastUpdatedNeverDecreases ==
    [][/\ StillThere(walletUpdated, walletUpdated') => walletUpdated' >= walletUpdated
       /\ StillThere(tokenUpdated, tokenUpdated') => tokenUpdated' >= tokenUpdated]_vars

-----------------------------------------------------------------------------
(* GetWalletTrustScore step by step: a wallet found in no store is rescored,
   the rescoring asks for the similar wallets, and when the query for the
   stored similarities fails the similarities are calculated, which calls
   GetWalletTrustScore for every wallet similar enough.  The calls in progress
   are the frames of callStack. *)

MaxCallOps == 2
MaxDepth == 4

(* one interaction of each wallet with the token *)
TradesOf(ws) ==
    [id \in {InteractionID("tx1", w, "T1") : w \in ws} |->
        CHOOSE i \in {Interaction(InteractionID("tx1", w, "T1"), w, "T1", "tx1") : w \in ws} :
            i.ID = id]

(* what earlier runs left in PostgreSQL: the interactions of W1 or of both
   wallets, the similarity rows UpdateWalletSimilarities wrote in either
   direction, and the score rows that were saved: a wallet node gets its
   similarity rows whether or not its score was saved *)
CallStores ==
    {[trades |-> TradesOf(ws), sims |-> sm, scores |-> sc] :
        ws \in {{"W1"}, {"W1", "W2"}},
        sm \in SUBSET {[wallet |-> "W1", similar |-> "W2", score |-> 100],
                       [wallet |-> "W2", similar |-> "W1", score |-> 100]},
        sc \in {EmptyMap, "W1" :> Points(80), "W2" :> Points(80),
                ("W1" :> Points(80)) @@ ("W2" :> Points(80))}}

CallFrame ==
    /\ UNCHANGED <<gTokens, dbInteractions, dbSimilarities, pendingUpdates, recordedOK,
                   lastRecorded, historyResult, scoreResult, recordResult, similarResult,
                   stopCh, stopResult, started, trustOps, dbFaults>>
    /\ UNCHANGED <<pipeVars, besideCall>>

(* the frame of a call that has just been made: it remembers the stores as
   they were when it was made *)
NewCall(w) ==
    [wallet |-> w, pc |-> "called", seen |-> <<gWallets, dbScores, cache>>,
     todo |-> <<>>, found |-> <<>>]

(* the stack after its innermost call returned the score: the caller, if
   there is one, is calculateWalletSimilarities, which keeps the score and
   goes on to the next wallet *)
AfterReturn(stack, score) ==
    LET rest == SubSeq(stack, 1, Len(stack) - 1)
    IN  IF Len(rest) = 0 THEN rest
        ELSE [rest EXCEPT ![Len(rest)].found = Append(@, score),
                          ![Len(rest)].todo = Tail(@)]

(* the innermost call returns the score *)
CallReturns(score) ==
    /\ callStack' = AfterReturn(callStack, score)
    /\ callResult' = IF Len(callStack) = 1
                     THEN [kind |-> "score", wallet |-> callStack[1].wallet, score |-> score]
                     ELSE callResult

(* a caller outside the Memory of Trust calls GetWalletTrustScore(w) *)
CallGetWalletTrustScore(w) ==
    /\ Len(callStack) = 0
    /\ callOps < MaxCallOps
    /\ callOps' = callOps + 1
    /\ callStack' = <<NewCall(w)>>
    /\ callResult' = [kind |-> "none", n |-> 0]
    /\ UNCHANGED <<gWallets, dbScores, cache>>
    /\ CallFrame

(* GetWalletTrustScore up to updateWalletTrustScore: the cached score, else
   the score of the node, which is cached, else the stored score, which makes
   a node and is cached, else the wallet is rescored *)
LookupTrustScore ==
    /\ Len(callStack) > 0
    /\ LET top == callStack[Len(callStack)]
           w == top.wallet
       IN  /\ top.pc = "called"
           /\ CASE Has(cache, TrustKey(w)) ->
                     /\ CallReturns(cache[TrustKey(w)])
                     /\ UNCHANGED <<gWallets, dbScores, cache>>
                [] ~Has(cache, TrustKey(w)) /\ Has(gWallets, w) ->
                     /\ CallReturns(gWallets[w].trustScore)
                     /\ cache' = Put(cache, TrustKey(w), gWallets[w].trustScore)
                     /\ UNCHANGED <<gWallets, dbScores>>
                [] ~Has(cache, TrustKey(w)) /\ ~Has(gWallets, w) /\ Has(dbScores, w) ->
                     /\ CallReturns(dbScores[w])
                     /\ gWallets' = Put(gWallets, w, NewWalletNode(dbScores[w]))
                     /\ cache' = Put(cache, TrustKey(w), dbScores[w])
                     /\ UNCHANGED dbScores
                [] OTHER ->
                     /\ callStack' = [callStack EXCEPT ![Len(callStack)].pc = "update"]
                     /\ UNCHANGED <<gWallets, dbScores, cache, callResult>>
    /\ UNCHANGED callOps
    /\ CallFrame

(* db.GetWalletSimilarities fails: a row of the wallet is joined with no
   score row, and the NULL trust_score cannot be scanned into a float64 *)
SimilaritiesFail(w) ==
    \E r \in dbSimilarities :
        r.wallet = w /\ r.score >= MinSimilarity /\ ~Has(dbScores, r.similar)

(* evaluateNetworkPerformance: the mean trust score of the similar wallets,
   50 when there is none *)
NetworkScore(similar) ==
    IF Len(similar) = 0 THEN Points(50) ELSE TotalScore(similar) \div Len(similar)

(* calculateWalletTrustScore with n interactions and the network score *)
WeightedScore(n, network) ==
    Clamp((40 * evaluateProfitPerformance + 25 * evaluateTimingPerformance(n)
           + 15 * evaluateVolumePerformance + 20 * network) \div 100)

(* updateWalletTrustScore once the new score is calculated: a new node, or a
   node whose score moved by more than 5 points, is written to the graph, to
   the database and to the cache *)
Rescored(w, newScore, c) ==
    IF ~Has(gWallets, w)
    THEN [wallets |-> Put(gWallets, w, NewWalletNode(newScore)),
          scores |-> Put(dbScores, w, newScore),
          cache |-> Put(c, TrustKey(w), newScore)]
    ELSE IF Abs(gWallets[w].trustScore - newScore) > SignificantChange
         THEN [wallets |-> [gWallets EXCEPT ![w].trustScore = newScore],
               scores |-> Put(dbScores, w, newScore),
               cache |-> Put(c, TrustKey(w), newScore)]
         ELSE [wallets |-> gWallets, scores |-> dbScores, cache |-> c]

(* updateWalletTrustScore writes the new score, and GetWalletTrustScore
   returns the score of the node *)
RescoredAndReturned(w, newScore, c) ==
    LET after == Rescored(w, newScore, c)
    IN  /\ gWallets' = after.wallets
        /\ dbScores' = after.scores
        /\ cache' = after.cache
        /\ CallReturns(after.wallets[w].trustScore)

(* the wallets calculateWalletSimilarities compares the wallet with: the other
   wallets active on a token of the wallet, and of them the ones whose
   Jaccard similarity reaches the minimum *)
SimilarEnough(w) ==
    {a \in WalletAddrs \ {w} :
        /\ GetWalletTokens(dbInteractions, a) \cap GetWalletTokens(dbInteractions, w) # {}
        /\ Jaccard(dbInteractions, w, a) >= MinSimilarity}

(* calculateWalletTrustScore up to calculateWalletSimilarities: 50 without
   interactions, else the network score of the cached or of the stored
   similar wallets, else the similarities are calculated *)
RecalculateTrustScore ==
    /\ Len(callStack) > 0
    /\ LET top == callStack[Len(callStack)]
           w == top.wallet
           n == CountWalletInteractions(dbInteractions, w, ScoreHistoryLimit)
           stored == GetWalletSimilarities(dbSimilarities, dbScores, w, MinSimilarity,
                                           SimilarLimit)
       IN  /\ top.pc = "update"
           /\ CASE n = 0 -> RescoredAndReturned(w, Points(50), cache)
                [] n > 0 /\ Has(cache, SimilarKey(w)) ->
                     RescoredAndReturned(w, WeightedScore(n, NetworkScore(cache[SimilarKey(w)])),
                                         cache)
                [] n > 0 /\ ~Has(cache, SimilarKey(w)) /\ ~SimilaritiesFail(w) ->
                     RescoredAndReturned(w, WeightedScore(n, NetworkScore(stored)),
                                         Put(cache, SimilarKey(w), stored))
                [] OTHER ->
                     /\ \E order \in WalletOrders(SimilarEnough(w)) :
                           callStack' = [callStack EXCEPT ![Len(callStack)].pc = "similar",
                                                          ![Len(callStack)].todo = order]
                     /\ UNCHANGED <<gWallets, dbScores, cache, callResult>>
    /\ UNCHANGED callOps
    /\ CallFrame

(* calculateWalletSimilarities: "trustScore, err := m.GetWalletTrustScore(addr)"
   for the next wallet similar enough *)
CallSimilarTrustScore ==
    /\ Len(callStack) > 0
    /\ Len(callStack) < MaxDepth
    /\ LET top == callStack[Len(callStack)]
       IN  /\ top.pc = "similar"
           /\ Len(top.todo) > 0
           /\ callStack' = Append(callStack, NewCall(Head(top.todo)))
    /\ UNCHANGED <<gWallets, dbScores, cache, callResult, callOps>>
    /\ CallFrame

(* the list calculateWalletSimilarities returns: an entry under the address of
   the wallet itself for every trust score it was given *)
CalculatedSimilarities(w, found) ==
    [k \in 1..Len(found) |-> [WalletAddress |-> w, Score |-> 100, TrustScore |-> found[k]]]

(* calculateWalletSimilarities has asked for every wallet: GetSimilarWallets
   caches the list, the score is calculated and written, and the call returns *)
SimilaritiesCalculated ==
    /\ Len(callStack) > 0
    /\ LET top == callStack[Len(callStack)]
           w == top.wallet
           n == CountWalletInteractions(dbInteractions, w, ScoreHistoryLimit)
           list == CalculatedSimilarities(w, top.found)
       IN  /\ top.pc = "similar"
           /\ Len(top.todo) = 0
           /\ RescoredAndReturned(w, WeightedScore(n, NetworkScore(list)),
                                  Put(cache, SimilarKey(w), list))
    /\ UNCHANGED callOps
    /\ CallFrame

CallNext ==
    \/ \E w \in WalletAddrs : CallGetWalletTrustScore(w)
    \/ LookupTrustScore
    \/ RecalculateTrustScore
    \/ CallSimilarTrustScore
    \/ SimilaritiesCalculated

(* the Memory of Trust with an empty graph and an empty cache over what
   earlier runs left in PostgreSQL *)
CallStart ==
    /\ PipelineInit /\ MoreIdle
    /\ \E st \in CallStores :
          /\ dbInteractions = st.trades
          /\ dbSimilarities = st.sims
          /\ dbScores = st.scores
    /\ gWallets = EmptyMap
    /\ gTokens = EmptyMap
    /\ cache = EmptyMap
    /\ pendingUpdates = EmptyMap
    /\ recordedOK = {}
    /\ lastRecorded = NoInteraction
    /\ historyResult = NoResult
    /\ scoreResult = NoResult
    /\ recordResult = NoResult
    /\ similarResult = NoResult
    /\ stopCh = "open"
    /\ stopResult = NoResult
    /\ started = FALSE
    /\ trustOps = 0
    /\ dbFaults = 0

CallSpec == CallStart /\ [][CallNext]_vars

(* two calls in progress are for the same wallet and met the same graph, the
   same score rows and the same cache: the later call does what the earlier
   one did, and calls itself again *)
Reentered(i, j) ==
    /\ callStack[i].wallet = callStack[j].wallet
    /\ callStack[i].seen = callStack[j].seen

(* C36: every GetWalletTrustScore call terminates: the calls in progress never
   hold the same wallet twice in the same state of the stores *)
C36_NoUnboundedReentry ==
    \A i, j \in 1..Len(callStack) : i < j => ~Reentered(i, j)

====
